---------------------------- MODULE Spec2Model ----------------------------
(***************************************************************************)
(* Duty-cycle ledger and movement planner of the desk lifter.              *)
(*                                                                         *)
(* Two variants of the same logic live in the repository and both are      *)
(* modelled here:                                                          *)
(*   - scripts/duty_cycle.py + scripts/desk_controller.py: the ledger is   *)
(*     the list state["usage_periods"] of [start, end, duration] entries,  *)
(*     persisted in the state file; usage is the clamped overlap sum.      *)
(*   - scripts/desk_control_prefect.py: the ledger is the module-level     *)
(*     deque on_periods_queue of (start, end) pairs; usage is the raw sum. *)
(*                                                                         *)
(* Time is counted in whole seconds (time.time() is a float in the code),  *)
(* heights in hundredths of an inch.                                       *)
(***************************************************************************)
EXTENDS Integers, Sequences, FiniteSets, TLC

(***************************************************************************)
(* Program constants.                                                      *)
(***************************************************************************)
\* scripts/duty_cycle.py:16, scripts/constants.py:13
DUTY_CYCLE_PERIOD == 1200
\* scripts/duty_cycle.py:17, scripts/constants.py:14
DUTY_CYCLE_MAX_ON_TIME == 120
\* scripts/duty_cycle.py:19, scripts/constants.py:16
MAX_CONTINUOUS_RUNTIME == 30
\* scripts/desk_controller.py:16-19, in hundredths of an inch (per second)
LOWEST_HEIGHT == 2370
HIGHEST_HEIGHT == 5450
UP_RATE == 54
DOWN_RATE == 55

(***************************************************************************)
(* Bounds of the model.                                                    *)
(***************************************************************************)
\* bursts executed per behaviour
MaxBursts == 4
\* intervals the API harness records into one ledger
MaxLen == 3
\* seconds by which a measured burst may exceed the requested sleep
MaxOverrun == 1
\* a burst lasts exactly the requested sleep, or MaxOverrun longer
Overruns == {0, MaxOverrun}
\* longest movement, in seconds, the chunking is evaluated for
MaxDuration == 100

\* Python's None where a height is expected (no height is negative)
None == 0 - 1

Max(a, b) == IF a >= b THEN a ELSE b
Min(a, b) == IF a <= b THEN a ELSE b
Abs(a) == IF a >= 0 THEN a ELSE 0 - a
\* a / b for a >= 0, b > 0, rounded up to the next whole second
CeilDiv(a, b) == (a + b - 1) \div b

VARIABLES
  now,        \* time.time()
  file,       \* STATE_FILE (lifter_state.json): whether it exists, its JSON object
  state,      \* the state dict the current caller holds in memory
  pc,         \* position of the running request
  req,        \* the running request: its height, direction, duration, start
  ret,        \* what the last completed call returned
  motorLog,   \* every interval during which a line was physically driven
  on_periods_queue, \* desk_control_prefect.py: the module-level deque
  gpio,       \* the UP line and the DOWN line: driven or released
  threads,    \* callers running at the same time: position and locals of each
  _lock,      \* lift_driver.py: who holds threading.Lock() _lock
  _initialized  \* lift_driver.py: the module flag _init_gpio sets

vars == <<now, file, state, pc, req, ret, motorLog, on_periods_queue,
          gpio, threads, _lock, _initialized>>

\* what only lift_driver.py and callers running side by side touch
driverVars == <<threads, _lock, _initialized>>

\* both lines released, nobody else running
Released == [up |-> "released", down |-> "released"]
NoThreads == <<>>
Quiet ==
  /\ gpio = Released
  /\ threads = NoThreads
  /\ _lock = "free"
  /\ _initialized = FALSE

\* STATE_FILE does not exist
NoFile == [exists |-> FALSE, data |-> [k \in {} |-> 0]]
NoReq == [op |-> "none"]
NoRet == [op |-> "none"]

(***************************************************************************)
(* scripts/duty_cycle.py                                                   *)
(***************************************************************************)
\* the state load_state() returns when STATE_FILE does not exist
DefaultState ==
  [usage_periods |-> <<>>, last_position |-> LOWEST_HEIGHT, total_up_time |-> 0]

\* load_state(): the file's record, each missing key defaulted on its own
load_state(f) ==
  IF ~f.exists THEN DefaultState
  ELSE [k \in DOMAIN f.data \cup DOMAIN DefaultState |->
          IF k \in DOMAIN f.data THEN f.data[k] ELSE DefaultState[k]]

\* save_state(state): the whole dict replaces the file
save_state(s) == [exists |-> TRUE, data |-> s]

\* mutant: a period is kept when it STARTS after the cutoff
clean_by_start(periods, t) ==
  SelectSeq(periods, LAMBDA p : p[1] > t - DUTY_CYCLE_PERIOD)

RECURSIVE clean_skip_after_remove(_, _)
\* mutant: expired periods are removed from the list while it is iterated,
\* so the entry after a removed one is never looked at
clean_skip_after_remove(periods, t) ==
  IF periods = <<>> THEN <<>>
  ELSE IF Head(periods)[2] > t - DUTY_CYCLE_PERIOD
    THEN <<Head(periods)>> \o clean_skip_after_remove(Tail(periods), t)
  ELSE IF Tail(periods) = <<>> THEN <<>>
  ELSE <<Head(Tail(periods))>>
         \o clean_skip_after_remove(Tail(Tail(periods)), t)

\* mutant: a period ending exactly at the cutoff is kept
clean_keep_cutoff(periods, t) ==
  SelectSeq(periods, LAMBDA p : p[2] >= t - DUTY_CYCLE_PERIOD)

\* clean_old_usage_periods: keep the periods that end after the cutoff
clean_old_usage_periods(periods, t) ==
  SelectSeq(periods, LAMBDA p : p[2] > t - DUTY_CYCLE_PERIOD)

\* mutant: a period in the list counts with its raw duration
raw_duration(p, t) == p[3]

\* one iteration of the loop of get_current_duty_cycle_usage: the part of
\* the period inside [t - DUTY_CYCLE_PERIOD, t]
effective_usage(p, t) ==
  LET window_start    == t - DUTY_CYCLE_PERIOD
      effective_start == Max(p[1], window_start)
      effective_end   == Min(p[2], t)
  IN  IF effective_end > effective_start
        THEN effective_end - effective_start
        ELSE 0

RECURSIVE total_usage(_, _)
total_usage(periods, t) ==
  IF periods = <<>> THEN 0
  ELSE effective_usage(Head(periods), t) + total_usage(Tail(periods), t)

\* get_current_duty_cycle_usage: clean, then sum the clamped overlaps
get_current_duty_cycle_usage(periods, t) ==
  total_usage(clean_old_usage_periods(periods, t), t)

\* mutant: the remaining time is not held at zero
remaining_unclamped(periods, t) ==
  DUTY_CYCLE_MAX_ON_TIME - get_current_duty_cycle_usage(periods, t)

\* get_remaining_duty_time
get_remaining_duty_time(periods, t) ==
  Max(0, DUTY_CYCLE_MAX_ON_TIME - get_current_duty_cycle_usage(periods, t))

\* record_usage_period: append [start, end, duration]
record_usage_period(periods, start_time, end_time, duration) ==
  Append(periods, <<start_time, end_time, duration>>)

\* mutant: the continuous-runtime test is skipped
check_without_burst_limit(periods, t, required_time) ==
  LET cleaned       == clean_old_usage_periods(periods, t)
      current_usage == get_current_duty_cycle_usage(cleaned, t)
  IN  IF current_usage + required_time > DUTY_CYCLE_MAX_ON_TIME
        THEN [is_valid |-> FALSE, periods |-> cleaned,
              reason |-> "DutyCycleExceeded",
              current_usage |-> current_usage,
              remaining_time |-> DUTY_CYCLE_MAX_ON_TIME - current_usage]
        ELSE [is_valid |-> TRUE, periods |-> cleaned, reason |-> "OK",
              current_usage |-> current_usage,
              remaining_time |-> DUTY_CYCLE_MAX_ON_TIME - current_usage]

\* mutant: the duty-cycle test looks at the usage alone, not at the usage
\* plus the requested time
check_usage_alone(periods, t, required_time) ==
  LET cleaned       == clean_old_usage_periods(periods, t)
      current_usage == get_current_duty_cycle_usage(cleaned, t)
  IN  IF required_time > MAX_CONTINUOUS_RUNTIME
        THEN [is_valid |-> FALSE, periods |-> cleaned,
              reason |-> "BurstTooLong",
              current_usage |-> current_usage,
              remaining_time |-> DUTY_CYCLE_MAX_ON_TIME - current_usage]
      ELSE IF current_usage > DUTY_CYCLE_MAX_ON_TIME
        THEN [is_valid |-> FALSE, periods |-> cleaned,
              reason |-> "DutyCycleExceeded",
              current_usage |-> current_usage,
              remaining_time |-> DUTY_CYCLE_MAX_ON_TIME - current_usage]
        ELSE [is_valid |-> TRUE, periods |-> cleaned, reason |-> "OK",
              current_usage |-> current_usage,
              remaining_time |-> DUTY_CYCLE_MAX_ON_TIME - current_usage]

\* check_duty_cycle_limits: (is_valid, updated_state, message). The message
\* is kept as its kind and the numbers formatted into it: the usage and
\* MAX_ON_TIME - usage (printed as "Remaining"); it holds no wait time.
check_duty_cycle_limits(periods, t, required_time) ==
  LET cleaned       == clean_old_usage_periods(periods, t)
      current_usage == get_current_duty_cycle_usage(cleaned, t)
  IN  IF required_time > MAX_CONTINUOUS_RUNTIME
        THEN [is_valid |-> FALSE, periods |-> cleaned,
              reason |-> "BurstTooLong",
              current_usage |-> current_usage,
              remaining_time |-> DUTY_CYCLE_MAX_ON_TIME - current_usage]
      ELSE IF current_usage + required_time > DUTY_CYCLE_MAX_ON_TIME
        THEN [is_valid |-> FALSE, periods |-> cleaned,
              reason |-> "DutyCycleExceeded",
              current_usage |-> current_usage,
              remaining_time |-> DUTY_CYCLE_MAX_ON_TIME - current_usage]
        ELSE [is_valid |-> TRUE, periods |-> cleaned, reason |-> "OK",
              current_usage |-> current_usage,
              remaining_time |-> DUTY_CYCLE_MAX_ON_TIME - current_usage]

\* get_duty_cycle_status
get_duty_cycle_status(periods, t) ==
  [current_usage   |-> get_current_duty_cycle_usage(periods, t),
   max_usage       |-> DUTY_CYCLE_MAX_ON_TIME,
   remaining_time  |-> get_remaining_duty_time(periods, t),
   percentage_used |->
     (get_current_duty_cycle_usage(periods, t) * 100) \div DUTY_CYCLE_MAX_ON_TIME,
   window_period   |-> DUTY_CYCLE_PERIOD]


(***************************************************************************)
(* scripts/desk_control_prefect.py: the queue-based ledger                 *)
(***************************************************************************)
RECURSIVE clean_old_periods(_, _)
\* clean_old_periods: pop from the left while the head ended before cutoff
clean_old_periods(q, t) ==
  IF q # <<>> /\ q[1][2] < t - DUTY_CYCLE_PERIOD
    THEN clean_old_periods(Tail(q), t)
    ELSE q

RECURSIVE sum_end_minus_start(_)
sum_end_minus_start(q) ==
  IF q = <<>> THEN 0 ELSE (q[1][2] - q[1][1]) + sum_end_minus_start(Tail(q))

\* get_current_usage: clean, then sum(end - start) over the queue
get_current_usage(q, t) == sum_end_minus_start(clean_old_periods(q, t))

\* get_remaining_duty_time of desk_control_prefect.py
prefect_get_remaining_duty_time(q, t) ==
  Max(0, DUTY_CYCLE_MAX_ON_TIME - get_current_usage(q, t))

\* can_run_for_duration
can_run_for_duration(q, t, duration) ==
  prefect_get_remaining_duty_time(q, t) >= duration

\* record_on_period
record_on_period(q, start_time, end_time) == Append(q, <<start_time, end_time>>)

\* mutant: the wait time is what is left of the budget
check_timing_wait_is_remaining(q, t, required_time) ==
  LET remaining_time == prefect_get_remaining_duty_time(q, t)
  IN  IF required_time > MAX_CONTINUOUS_RUNTIME
        THEN [ok |-> FALSE, reason |-> "BurstTooLong", queue |-> q]
      ELSE IF remaining_time >= required_time
        THEN [ok |-> TRUE, reason |-> "OK", queue |-> clean_old_periods(q, t)]
        ELSE [ok |-> FALSE, reason |-> "DutyCycleExceeded",
              queue |-> clean_old_periods(q, t),
              wait_time |-> remaining_time]

\* check_timing_limits: True, or a ValueError whose message is kept as its
\* kind and, for the duty-cycle error, the wait time formatted into it. The
\* continuous-runtime error is raised before the queue is touched.
check_timing_limits(q, t, required_time) ==
  LET remaining_time == prefect_get_remaining_duty_time(q, t)
  IN  IF required_time > MAX_CONTINUOUS_RUNTIME
        THEN [ok |-> FALSE, reason |-> "BurstTooLong", queue |-> q]
      ELSE IF remaining_time >= required_time
        THEN [ok |-> TRUE, reason |-> "OK", queue |-> clean_old_periods(q, t)]
        ELSE [ok |-> FALSE, reason |-> "DutyCycleExceeded",
              queue |-> clean_old_periods(q, t),
              wait_time |-> required_time - remaining_time]

(***************************************************************************)
(* Ledger API harness: a caller that holds one state dict and calls the    *)
(* functions of scripts/duty_cycle.py on it in any order, at any time, and *)
(* hands the same intervals and requests to the queue-based functions of   *)
(* scripts/desk_control_prefect.py.                                        *)
(***************************************************************************)
\* instants at which the harness records and evaluates
ApiEndpoints == {0, 10, 20, 100}
ApiInstants == {20, 100, DUTY_CYCLE_PERIOD + 10, DUTY_CYCLE_PERIOD + 20,
                DUTY_CYCLE_PERIOD + 100}
\* durations the harness asks for
ApiDurations == {0, 10, 20, MAX_CONTINUOUS_RUNTIME, MAX_CONTINUOUS_RUNTIME + 1,
                 100}

LedgerInit ==
  /\ now = 20
  /\ file = NoFile
  /\ state = load_state(file)
  /\ pc = "api"
  /\ req = NoReq
  /\ ret = NoRet
  /\ motorLog = <<>>
  /\ on_periods_queue = <<>>
  /\ Quiet

\* record_usage_period(state, start, end, end - start) and
\* record_on_period(start, end)
ApiRecord ==
  /\ pc = "api"
  /\ Len(state.usage_periods) < MaxLen
  /\ Len(on_periods_queue) < MaxLen
  /\ \E s \in ApiEndpoints, e \in ApiEndpoints :
       /\ s < e /\ e <= now
       /\ state' = [state EXCEPT !.usage_periods =
                      record_usage_period(@, s, e, e - s)]
       /\ on_periods_queue' = record_on_period(on_periods_queue, s, e)
       /\ ret' = [op |-> "record", before |-> state.usage_periods, t |-> now]
  /\ UNCHANGED <<now, file, pc, req, motorLog, gpio, driverVars>>

\* clean_old_usage_periods(state)
ApiClean ==
  /\ pc = "api"
  /\ state' = [state EXCEPT !.usage_periods = clean_old_usage_periods(@, now)]
  /\ LET again == ret.op = "clean" /\ ret.t = now
     IN  ret' = [op |-> "clean", before |-> state.usage_periods, t |-> now,
                 again |-> again,
                 removed |-> IF again THEN ret.removed
                             ELSE Len(state.usage_periods)
                                  - Len(clean_old_usage_periods(state.usage_periods, now))]
  /\ UNCHANGED <<now, file, pc, req, motorLog, on_periods_queue, gpio, driverVars>>

\* get_current_duty_cycle_usage(state), which cleans the caller's dict in
\* place, and get_current_usage(), which cleans the queue
ApiUsage ==
  /\ pc = "api"
  /\ state' = [state EXCEPT !.usage_periods = clean_old_usage_periods(@, now)]
  /\ on_periods_queue' = clean_old_periods(on_periods_queue, now)
  /\ ret' = [op |-> "usage", before |-> state.usage_periods, t |-> now,
             value |-> get_current_duty_cycle_usage(state.usage_periods, now),
             qbefore |-> on_periods_queue,
             qvalue |-> get_current_usage(on_periods_queue, now)]
  /\ UNCHANGED <<now, file, pc, req, motorLog, gpio, driverVars>>

\* the fields of a check result that reach the caller in the message
Message(r) == [k \in DOMAIN r \ {"periods", "queue", "is_valid", "ok"} |-> r[k]]

\* check_duty_cycle_limits(state, required_time) and
\* check_timing_limits(required_time)
ApiCheck ==
  /\ pc = "api"
  /\ \E required_time \in ApiDurations :
       LET r == check_duty_cycle_limits(state.usage_periods, now, required_time)
           c == check_timing_limits(on_periods_queue, now, required_time)
       IN  /\ state' = [state EXCEPT !.usage_periods = r.periods]
           /\ on_periods_queue' = c.queue
           /\ ret' = [op |-> "check", before |-> state.usage_periods,
                      qbefore |-> on_periods_queue, t |-> now,
                      required_time |-> required_time,
                      is_valid |-> r.is_valid, message |-> Message(r),
                      ok |-> c.ok, error |-> Message(c)]
  /\ UNCHANGED <<now, file, pc, req, motorLog, gpio, driverVars>>

\* the clock moves on between two calls
ApiTick ==
  /\ pc = "api"
  /\ \E t \in ApiInstants : t > now /\ now' = t
  /\ UNCHANGED <<file, state, pc, req, ret, motorLog, on_periods_queue, gpio, driverVars>>

LedgerNext == ApiRecord \/ ApiClean \/ ApiUsage \/ ApiCheck \/ ApiTick

SpecLedger == LedgerInit /\ [][LedgerNext]_vars

(***************************************************************************)
(* scripts/desk_controller.py: move_to_height, one request at a time.      *)
(* movement_control.py (move_up, move_down) is not among the sources; a    *)
(* burst is modelled as the design describes it: the line is driven for    *)
(* the requested time and the wall-clock start and end are returned.       *)
(***************************************************************************)
\* desk_control_prefect.py lines 59-89, the functions movement_control is
\* imported for: a line is pressed (driven low) or released (high impedance)
setup_gpio(g) == g
release_up(g) == [g EXCEPT !.up = "released"]
press_up(g) == [g EXCEPT !.up = "driven"]
release_down(g) == [g EXCEPT !.down = "released"]
press_down(g) == [g EXCEPT !.down = "driven"]
cleanup_gpio(g) == release_down(release_up(g))

\* mutant: the line of the other direction is pressed
start_burst_swapped(direction, g) ==
  IF direction = "up" THEN press_down(release_down(g))
  ELSE press_up(release_up(g))

\* move_up / move_down, lines 151-153 and 168-170: release, then press
start_burst(direction, g) ==
  IF direction = "up" THEN press_up(release_up(g))
  ELSE press_down(release_down(g))

\* move_up / move_down, lines 155 and 172: release after the sleep
end_burst(direction, g) ==
  IF direction = "up" THEN release_up(g) ELSE release_down(g)

\* heights a caller asks for, the first and the last one out of range
TargetHeights == {LOWEST_HEIGHT - 1, LOWEST_HEIGHT, LOWEST_HEIGHT + 30 * UP_RATE,
                  HIGHEST_HEIGHT, HIGHEST_HEIGHT + 1}
\* current heights a caller states (None: use the last known position)
CurrentHeights == {None, LOWEST_HEIGHT}
\* instants the clock is at when the caller comes back after a pause
Instants == {DUTY_CYCLE_PERIOD + 10, 2 * DUTY_CYCLE_PERIOD + 100}

Init ==
  /\ now = 0
  /\ file = NoFile
  /\ state = DefaultState
  /\ pc = "idle"
  /\ req = NoReq
  /\ ret = NoRet
  /\ motorLog = <<>>
  /\ on_periods_queue = <<>>
  /\ Quiet

\* mutant: the upper end of the range is not tested
in_range_no_upper(target_height) == LOWEST_HEIGHT <= target_height

\* LOWEST_HEIGHT <= target_height <= HIGHEST_HEIGHT
in_range(target_height) ==
  LOWEST_HEIGHT <= target_height /\ target_height <= HIGHEST_HEIGHT

\* mutant: no delta counts as "already there"
never_within_tolerance(delta) == delta # delta

\* abs(delta) < 0.01, heights being in hundredths of an inch
within_tolerance(delta) == Abs(delta) < 1

\* mutant: the time of a movement down is added to total_up_time as well
total_up_time_both_ways(total_up_time, direction, duration) ==
  total_up_time + duration

\* state["total_up_time"] += actual_duration, which only the branch of the
\* movement up does
new_total_up_time(total_up_time, direction, duration) ==
  IF direction = "up" THEN total_up_time + duration ELSE total_up_time

\* move_up / move_down of movement_control: the time.sleep(required_time)
\* between press and release lasts what was asked for, or longer
move_measured(start_time, required_time, overrun) ==
  <<start_time, start_time + required_time + overrun,
    required_time + overrun>>

\* lines 22-72 and 81-93 of move_to_height: validation, load_state, the
\* current height, the duration, check_duty_cycle_limits. The call either
\* ends here (error, no-op, rejection) or goes on to drive the motor.
MoveToHeightCall ==
  /\ pc = "idle"
  /\ Len(motorLog) < MaxBursts
  /\ \E target_height \in TargetHeights, given \in CurrentHeights :
       IF ~in_range(target_height)
       THEN \* ValueError raised to the caller before anything is touched
            /\ ret' = [op |-> "move_to_height", success |-> FALSE,
                       raised |-> "OutOfRange", t |-> now,
                       target_height |-> target_height, given |-> given]
            /\ UNCHANGED <<now, file, state, pc, req, motorLog, on_periods_queue, gpio, driverVars>>
       ELSE
         LET loaded == load_state(file)
             current_height == IF given = None THEN loaded.last_position
                               ELSE given
         IN
         IF current_height = None
         THEN /\ ret' = [op |-> "move_to_height", success |-> FALSE,
                         error |-> [reason |-> "UnknownPosition"], t |-> now,
                         target_height |-> target_height, given |-> given,
                         duty_cycle |-> get_duty_cycle_status(
                                          load_state(file).usage_periods, now)]
              /\ UNCHANGED <<now, file, state, pc, req, motorLog, on_periods_queue, driverVars>>
              /\ gpio' = cleanup_gpio(setup_gpio(gpio))
         ELSE
         LET delta == target_height - current_height
             required_time == IF delta > 0 THEN CeilDiv(delta, UP_RATE)
                              ELSE CeilDiv(Abs(delta), DOWN_RATE)
             chk == check_duty_cycle_limits(loaded.usage_periods, now, required_time)
         IN
         IF within_tolerance(delta)
         THEN /\ ret' = [op |-> "move_to_height", success |-> TRUE,
                         movement |-> "none", t |-> now,
                         target_height |-> target_height, given |-> given,
                         current_height |-> current_height,
                         duty_cycle |-> get_duty_cycle_status(loaded.usage_periods, now)]
              /\ UNCHANGED <<now, file, state, pc, req, motorLog, on_periods_queue, driverVars>>
              /\ gpio' = cleanup_gpio(setup_gpio(gpio))
         ELSE IF ~chk.is_valid
         THEN /\ ret' = [op |-> "move_to_height", success |-> FALSE,
                         error |-> Message(chk), t |-> now,
                         target_height |-> target_height, given |-> given,
                         current_height |-> current_height,
                         required_time |-> required_time,
                         before |-> loaded.usage_periods,
                         duty_cycle |-> get_duty_cycle_status(
                                          load_state(file).usage_periods, now)]
              /\ UNCHANGED <<now, file, state, pc, req, motorLog, on_periods_queue, driverVars>>
              /\ gpio' = cleanup_gpio(setup_gpio(gpio))
         ELSE /\ pc' = "moving"
              /\ state' = [loaded EXCEPT !.usage_periods = chk.periods]
              /\ req' = [op |-> "move_to_height", target_height |-> target_height,
                         current_height |-> current_height, given |-> given,
                         direction |-> IF delta > 0 THEN "up" ELSE "down",
                         required_time |-> required_time, start_time |-> now,
                         current_usage |-> chk.current_usage]
              /\ UNCHANGED <<now, file, ret, motorLog, on_periods_queue, driverVars>>
              /\ gpio' = start_burst(IF delta > 0 THEN "up" ELSE "down",
                                       setup_gpio(gpio))

\* lines 76-80 / 96-99 and 101-122: the burst returns, its measured period
\* is recorded, the position is set, the state saved, the status returned
MoveToHeightDone ==
  /\ pc = "moving"
  /\ \E overrun \in Overruns :
       LET m == move_measured(req.start_time, req.required_time, overrun)
           recorded == record_usage_period(state.usage_periods, m[1], m[2], m[3])
           saved == [state EXCEPT
                       !.usage_periods = recorded,
                       !.last_position = req.target_height,
                       !.total_up_time =
                         new_total_up_time(@, req.direction, m[3])]
       IN  /\ now' = req.start_time + req.required_time + overrun
           /\ motorLog' = Append(motorLog, <<req.start_time, now'>>)
           /\ file' = save_state(saved)
           /\ ret' = [op |-> "move_to_height", success |-> TRUE,
                      movement |-> req.direction, t |-> now',
                      duration |-> m[3], admitted_at |-> req.start_time,
                      required_time |-> req.required_time,
                      usage_at_admission |-> req.current_usage,
                      duty_cycle |-> get_duty_cycle_status(recorded, now'),
                      total_up_time |-> saved.total_up_time]
  /\ pc' = "idle"
  /\ state' = DefaultState
  /\ req' = NoReq
  /\ gpio' = cleanup_gpio(end_burst(req.direction, gpio))
  /\ UNCHANGED <<on_periods_queue, driverVars>>

\* lines 124-130: move_up / move_down raises while the line is driven (a
\* GPIO error, an interrupted sleep); nothing is recorded or saved
MoveToHeightError ==
  /\ pc = "moving"
  /\ \E elapsed \in {Min(1, req.required_time)} :
       /\ now' = req.start_time + elapsed
       /\ motorLog' = Append(motorLog, <<req.start_time, now'>>)
       /\ ret' = [op |-> "move_to_height", success |-> FALSE,
                  error |-> [reason |-> "ActuatorFailure"], t |-> now',
                  duty_cycle |-> get_duty_cycle_status(
                                   load_state(file).usage_periods, now')]
  /\ pc' = "idle"
  /\ state' = DefaultState
  /\ req' = NoReq
  /\ gpio' = cleanup_gpio(gpio)
  /\ UNCHANGED <<file, on_periods_queue, driverVars>>

\* show_duty_cycle_status of main.py: load_state, get_duty_cycle_status,
\* print; nothing is saved
ShowStatus ==
  /\ pc = "idle"
  /\ ret' = [op |-> "status", t |-> now,
             periods |-> load_state(file).usage_periods,
             duty_cycle |-> get_duty_cycle_status(load_state(file).usage_periods, now)]
  /\ UNCHANGED <<now, file, state, pc, req, motorLog, on_periods_queue, gpio, driverVars>>

\* time passes between two requests
Tick ==
  /\ pc = "idle"
  /\ \E t \in Instants : t > now /\ now' = t
  /\ UNCHANGED <<file, state, pc, req, ret, motorLog, on_periods_queue, gpio, driverVars>>

Next ==
  \/ MoveToHeightCall \/ MoveToHeightDone \/ MoveToHeightError
  \/ ShowStatus \/ Tick

Spec == Init /\ [][Next]_vars

(***************************************************************************)
(* src/progressive_automations_python/cli.py: test_movement(direction),    *)
(* the --test option, between the requests of move_to_height.              *)
(***************************************************************************)
\* what a caller passes as direction
TestDirections == {"UP", "DOWN", "LEFT"}
\* time.sleep(2.0)
TestSeconds == 2

\* lines 18-23 / 26-27 and 30-32: setup_gpio, then the line of the
\* direction is pressed; any other direction returns 1 at once
TestMovementCall ==
  /\ pc = "idle"
  /\ Len(motorLog) < MaxBursts
  /\ \E direction \in TestDirections :
       IF direction = "UP" \/ direction = "DOWN"
       THEN /\ pc' = "testing"
            /\ req' = [op |-> "test_movement", direction |-> direction,
                       start_time |-> now]
            /\ gpio' = IF direction = "UP" THEN press_up(setup_gpio(gpio))
                       ELSE press_down(setup_gpio(gpio))
            /\ UNCHANGED ret
       ELSE /\ ret' = [op |-> "test_movement", code |-> 1, t |-> now,
                       direction |-> direction]
            /\ gpio' = setup_gpio(gpio)
            /\ UNCHANGED <<pc, req>>
  /\ UNCHANGED <<now, file, state, motorLog, on_periods_queue, driverVars>>

\* lines 24-25 / 28-29 and 34-36: the sleep ends, the line is released,
\* cleanup_gpio, return 0
TestMovementDone ==
  /\ pc = "testing"
  /\ now' = req.start_time + TestSeconds
  /\ motorLog' = Append(motorLog, <<req.start_time, now'>>)
  /\ gpio' = cleanup_gpio(IF req.direction = "UP" THEN release_up(gpio)
                          ELSE release_down(gpio))
  /\ ret' = [op |-> "test_movement", code |-> 0, t |-> now',
             direction |-> req.direction]
  /\ pc' = "idle"
  /\ req' = NoReq
  /\ UNCHANGED <<file, state, on_periods_queue, driverVars>>

\* lines 41-43: the sleep or the release raises; "except Exception" prints
\* and returns 1, and no line of the handler releases anything
TestMovementError ==
  /\ pc = "testing"
  /\ \E elapsed \in {Min(1, TestSeconds)} :
       /\ now' = req.start_time + elapsed
       /\ motorLog' = Append(motorLog, <<req.start_time, now'>>)
       /\ ret' = [op |-> "test_movement", code |-> 1, t |-> now',
                  direction |-> req.direction]
  /\ pc' = "idle"
  /\ req' = NoReq
  /\ UNCHANGED <<file, state, gpio, on_periods_queue, driverVars>>

CliNext ==
  \/ MoveToHeightCall \/ MoveToHeightDone \/ MoveToHeightError
  \/ TestMovementCall \/ TestMovementDone \/ TestMovementError
  \/ Tick

SpecCli == Init /\ [][CliNext]_vars

(***************************************************************************)
(* scripts/desk_control_prefect.py: move_to_height_flow, called again and  *)
(* again by one long-lived caller that catches what it raises.             *)
(***************************************************************************)
\* the dict load_state() of desk_control_prefect.py returns without a file
PrefectDefaultState(t) ==
  [total_up_time |-> 0, last_position |-> None, last_reset_time |-> t,
   current_window_usage |-> 0]

\* load_state of desk_control_prefect.py: the file's JSON object as it is
prefect_load_state(f, t) == IF f.exists THEN f.data ELSE PrefectDefaultState(t)

\* rest_between_chunks, the default of move_with_chunking
RestBetweenChunks == 2

RECURSIVE chunks_full_only(_)
\* mutant: the loop stops when less than a full chunk is left
chunks_full_only(remaining) ==
  IF remaining >= MAX_CONTINUOUS_RUNTIME
    THEN <<MAX_CONTINUOUS_RUNTIME>>
           \o chunks_full_only(remaining - MAX_CONTINUOUS_RUNTIME)
    ELSE <<>>

RECURSIVE chunks_of(_)
\* the while loop of move_with_chunking
chunks_of(remaining) ==
  IF remaining > 0
    THEN LET chunk_size == Min(remaining, MAX_CONTINUOUS_RUNTIME)
         IN  <<chunk_size>> \o chunks_of(remaining - chunk_size)
    ELSE <<>>

\* mutant: the movement is never cut into chunks
plan_single_burst(total_time) == <<total_time>>

\* the bursts move_with_chunking runs for total_time: the one burst of
\* lines 184-190, or the chunks of lines 193-199
planned_chunks(total_time) ==
  IF total_time <= MAX_CONTINUOUS_RUNTIME
    THEN <<total_time>>
    ELSE chunks_of(total_time)

\* heights and current heights the caller of the flow passes
FlowTargets == {LOWEST_HEIGHT, HIGHEST_HEIGHT, HIGHEST_HEIGHT + 1}
\* (current_height is not validated: the first one is below the range and
\* makes the way up to the highest height last 70 s)
FlowCurrents == {HIGHEST_HEIGHT - 70 * UP_RATE, HIGHEST_HEIGHT}
\* instants the clock is at when the caller comes back after a pause
FlowInstants == {DUTY_CYCLE_PERIOD + 10, 2 * DUTY_CYCLE_PERIOD + 100}

FlowInit ==
  /\ now = 0
  /\ file = NoFile
  /\ state = PrefectDefaultState(0)
  /\ pc = "idle"
  /\ req = NoReq
  /\ ret = NoRet
  /\ motorLog = <<>>
  /\ on_periods_queue = <<>>
  /\ Quiet

\* move_to_height_flow up to the first burst: validation, load_state, the
\* duration, and move_with_chunking's plan. A movement that fits one burst
\* goes straight to move_up / move_down; a longer one is cut into chunks.
FlowCall ==
  /\ pc = "idle"
  /\ Len(motorLog) < MaxBursts
  /\ \E target_height \in FlowTargets, current_height \in FlowCurrents :
       LET delta == target_height - current_height
           total_time == IF delta > 0 THEN CeilDiv(delta, UP_RATE)
                         ELSE CeilDiv(Abs(delta), DOWN_RATE)
       IN
       IF ~in_range(target_height)
       THEN /\ ret' = [op |-> "move_to_height_flow", raised |-> "OutOfRange",
                       t |-> now, target_height |-> target_height,
                       current_height |-> current_height]
            /\ UNCHANGED <<now, file, state, pc, req, motorLog, on_periods_queue, gpio, driverVars>>
       ELSE IF within_tolerance(delta)
       THEN /\ ret' = [op |-> "move_to_height_flow", raised |-> "nothing",
                       movement |-> "none", t |-> now,
                       target_height |-> target_height,
                       current_height |-> current_height]
            /\ UNCHANGED <<now, file, state, pc, req, motorLog, on_periods_queue, driverVars>>
            /\ gpio' = cleanup_gpio(setup_gpio(gpio))
       ELSE /\ state' = prefect_load_state(file, now)
            /\ req' = [op |-> "move_to_height_flow",
                       target_height |-> target_height,
                       current_height |-> current_height,
                       direction |-> IF delta > 0 THEN "up" ELSE "down",
                       total_time |-> total_time,
                       chunked |-> total_time > MAX_CONTINUOUS_RUNTIME,
                       chunks |-> planned_chunks(total_time),
                       i |-> 1, start_time |-> now, checked |-> FALSE,
                       bursts |-> <<>>, rests |-> 0]
            /\ pc' = IF total_time <= MAX_CONTINUOUS_RUNTIME
                       THEN "driving" ELSE "chunk"
            /\ UNCHANGED <<now, file, ret, motorLog, on_periods_queue, driverVars>>
            /\ gpio' = IF total_time <= MAX_CONTINUOUS_RUNTIME
                         THEN start_burst(IF delta > 0 THEN "up" ELSE "down",
                                          setup_gpio(gpio))
                         ELSE setup_gpio(gpio)

\* move_with_chunking, lines 206-207: check_timing_limits(chunk_time); its
\* ValueError ends the flow (the finally of the flow cleans up the GPIO)
FlowCheckChunk ==
  /\ pc = "chunk"
  /\ LET c == check_timing_limits(on_periods_queue, now, req.chunks[req.i])
     IN  /\ on_periods_queue' = c.queue
         /\ IF c.ok
              THEN /\ pc' = "driving"
                   /\ req' = [req EXCEPT !.start_time = now, !.checked = TRUE]
                   /\ gpio' = start_burst(req.direction, gpio)
                   /\ UNCHANGED ret
              ELSE /\ pc' = "idle"
                   /\ req' = NoReq
                   /\ gpio' = cleanup_gpio(gpio)
                   /\ ret' = [op |-> "move_to_height_flow",
                              raised |-> c.reason, error |-> Message(c),
                              t |-> now, chunk |-> req.i,
                              target_height |-> req.target_height,
                              current_height |-> req.current_height,
                              direction |-> req.direction,
                              chunks |-> req.chunks, bursts |-> req.bursts,
                              rests |-> req.rests]
  /\ UNCHANGED <<now, file, state, motorLog, driverVars>>

\* mutant: no rest between chunks
rest_never(i, n) == i < 0

\* line 216, "if i < len(chunks) - 1", i counted from 1 here
rest_after(i, n) == i < n

\* move_up / move_down: press, time.sleep(t), release, end_time, and
\* record_on_period(start_time, end_time); then move_with_chunking rests
\* or goes on to the next chunk; after the last burst lines 251-267 of the
\* flow: total_up_time, last_position, save_state, and the log line that
\* names MAX_ON_TIME, which is not defined
FlowBurstDone ==
  /\ pc = "driving"
  /\ \E overrun \in Overruns :
       LET chunk_time == req.chunks[req.i]
           end_time == req.start_time + chunk_time + overrun
           last == req.i = Len(req.chunks)
           queued == record_on_period(on_periods_queue, req.start_time, end_time)
           bursts == Append(req.bursts, <<req.start_time, end_time>>)
           moved == IF req.direction = "up"
                      THEN [state EXCEPT !.total_up_time = @ + req.total_time]
                      ELSE state
           saved == [moved EXCEPT !.last_position = req.target_height]
           done(raised) == [op |-> "move_to_height_flow", raised |-> raised,
                            t |-> end_time,
                            target_height |-> req.target_height,
                            current_height |-> req.current_height,
                            direction |-> req.direction,
                            total_time |-> req.total_time,
                            chunked |-> req.chunked,
                            chunks |-> req.chunks, bursts |-> bursts,
                            rests |-> req.rests]
       IN  /\ now' = end_time
           /\ motorLog' = Append(motorLog, <<req.start_time, end_time>>)
           /\ IF req.chunked /\ rest_after(req.i, Len(req.chunks))
                THEN /\ on_periods_queue' = queued
                     /\ pc' = "resting"
                     /\ req' = [req EXCEPT !.bursts = bursts]
                     /\ gpio' = end_burst(req.direction, gpio)
                     /\ UNCHANGED <<file, state, ret>>
              ELSE IF ~last
                THEN /\ on_periods_queue' = queued
                     /\ pc' = "chunk"
                     /\ req' = [req EXCEPT !.bursts = bursts, !.i = @ + 1,
                                           !.checked = FALSE]
                     /\ gpio' = end_burst(req.direction, gpio)
                     /\ UNCHANGED <<file, state, ret>>
              ELSE IF req.direction = "up" /\ "total_up_time" \notin DOMAIN state
                THEN /\ on_periods_queue' = queued
                     /\ pc' = "idle"
                     /\ req' = NoReq
                     /\ ret' = done("KeyError")
                     /\ gpio' = cleanup_gpio(end_burst(req.direction, gpio))
                     /\ UNCHANGED <<file, state>>
                ELSE /\ on_periods_queue' = clean_old_periods(queued, now')
                     /\ file' = save_state(saved)
                     /\ state' = saved
                     /\ pc' = "idle"
                     /\ req' = NoReq
                     /\ ret' = done("NameError")
                     /\ gpio' = cleanup_gpio(end_burst(req.direction, gpio))
  /\ UNCHANGED driverVars

\* the time.sleep of move_up / move_down is interrupted, or release raises:
\* the lines after it, record_on_period among them, do not run; the flow's
\* finally releases the line
FlowBurstInterrupted ==
  /\ pc = "driving"
  /\ \E elapsed \in {Min(1, req.chunks[req.i])} :
       /\ now' = req.start_time + elapsed
       /\ motorLog' = Append(motorLog, <<req.start_time, now'>>)
       /\ ret' = [op |-> "move_to_height_flow", raised |-> "Interrupted",
                  t |-> now']
  /\ pc' = "idle"
  /\ req' = NoReq
  /\ gpio' = cleanup_gpio(gpio)
  /\ UNCHANGED <<file, state, on_periods_queue, driverVars>>

\* lines 215-218: time.sleep(rest_between_chunks) before the next chunk
FlowRest ==
  /\ pc = "resting"
  /\ now' = now + RestBetweenChunks
  /\ req' = [req EXCEPT !.i = @ + 1, !.checked = FALSE, !.rests = @ + 1]
  /\ pc' = "chunk"
  /\ UNCHANGED <<file, state, ret, motorLog, on_periods_queue, gpio, driverVars>>

\* the process ends and a new one imports the module: line 26 makes a new,
\* empty queue; the state file is what is left of the old process
FlowRestart ==
  /\ pc = "idle"
  /\ on_periods_queue # <<>>
  /\ on_periods_queue' = <<>>
  /\ ret' = [op |-> "restart", t |-> now,
             usage_before |-> get_current_usage(on_periods_queue, now)]
  /\ UNCHANGED <<now, file, state, pc, req, motorLog, gpio, driverVars>>

\* time passes between two calls of the flow
FlowTick ==
  /\ pc = "idle"
  /\ \E t \in FlowInstants : t > now /\ now' = t
  /\ UNCHANGED <<file, state, pc, req, ret, motorLog, on_periods_queue, gpio, driverVars>>

FlowNext ==
  \/ FlowCall \/ FlowCheckChunk \/ FlowBurstDone \/ FlowBurstInterrupted
  \/ FlowRest \/ FlowRestart \/ FlowTick

SpecFlow == FlowInit /\ [][FlowNext]_vars

\* state files that lack some of the fields: all of them, all but
\* last_position, all but total_up_time
PartialFiles ==
  {[exists |-> TRUE, data |-> [k \in {} |-> 0]],
   [exists |-> TRUE, data |-> [last_position |-> LOWEST_HEIGHT]],
   [exists |-> TRUE, data |-> [total_up_time |-> 5]]}

\* the flow is started where such a file lies
FlowInitPartial ==
  /\ now = 0
  /\ file \in PartialFiles
  /\ state = PrefectDefaultState(0)
  /\ pc = "idle"
  /\ req = NoReq
  /\ ret = NoRet
  /\ motorLog = <<>>
  /\ on_periods_queue = <<>>
  /\ Quiet

SpecFlowPartial == FlowInitPartial /\ [][FlowNext]_vars

(***************************************************************************)
(* scripts/desk_control_prefect.py: wait_for_duty_cycle, called by one     *)
(* caller between its bursts. While it waits nothing else runs, so nothing *)
(* is recorded; the loop goes on as long as the process lives.             *)
(***************************************************************************)
\* time.sleep(min(wait_time, 30))
WaitPollSeconds == 30
\* durations the caller waits for, the last one above the whole budget
WaitDurations == {30, DUTY_CYCLE_MAX_ON_TIME, DUTY_CYCLE_MAX_ON_TIME + 1}
\* lengths of the bursts recorded before
WaitBursts == {30, 60}
\* the caller starts bursts and waits up to this instant
WaitCallsUntil == 200
\* the clock of the model stops here
WaitHorizon == 1600

WaitInit ==
  /\ now = 0
  /\ file = NoFile
  /\ state = PrefectDefaultState(0)
  /\ pc = "idle"
  /\ req = NoReq
  /\ ret = NoRet
  /\ motorLog = <<>>
  /\ on_periods_queue = <<>>
  /\ Quiet

\* mutant: the loop does not sleep
sleep_nothing(wait_time) == 0

\* line 143: time.sleep(min(wait_time, 30))
wait_sleep(wait_time) == Min(wait_time, WaitPollSeconds)

\* move_up / move_down called directly: the burst, then record_on_period
WaitBurst ==
  /\ pc = "idle"
  /\ now <= WaitCallsUntil
  /\ Len(on_periods_queue) < MaxLen
  /\ \E d \in WaitBursts :
       /\ now' = now + d
       /\ on_periods_queue' = record_on_period(on_periods_queue, now, now')
       /\ motorLog' = Append(motorLog, <<now, now'>>)
  /\ UNCHANGED <<file, state, pc, req, ret, gpio, driverVars>>

\* wait_for_duty_cycle(required_duration) is called
WaitCall ==
  /\ pc = "idle"
  /\ now <= WaitCallsUntil
  /\ \E required_duration \in WaitDurations :
       req' = [op |-> "wait_for_duty_cycle",
               required_duration |-> required_duration,
               called_at |-> now, sleeps |-> 0]
  /\ pc' = "waiting"
  /\ UNCHANGED <<now, file, state, ret, motorLog, on_periods_queue, gpio,
                 driverVars>>

\* lines 136-139: remaining >= required_duration, break
WaitReturn ==
  /\ pc = "waiting"
  /\ prefect_get_remaining_duty_time(on_periods_queue, now)
       >= req.required_duration
  /\ on_periods_queue' = clean_old_periods(on_periods_queue, now)
  /\ ret' = [op |-> "wait_for_duty_cycle", t |-> now,
             required_duration |-> req.required_duration,
             called_at |-> req.called_at, sleeps |-> req.sleeps,
             remaining |-> prefect_get_remaining_duty_time(on_periods_queue, now),
             queue |-> on_periods_queue']
  /\ pc' = "idle"
  /\ req' = NoReq
  /\ UNCHANGED <<now, file, state, motorLog, gpio, driverVars>>

\* lines 136 and 141-143: not enough yet; sleep, then look again
WaitSleep ==
  /\ pc = "waiting"
  /\ now < WaitHorizon
  /\ LET remaining == prefect_get_remaining_duty_time(on_periods_queue, now)
     IN  /\ remaining < req.required_duration
         /\ now' = now + wait_sleep(req.required_duration - remaining)
  /\ on_periods_queue' = clean_old_periods(on_periods_queue, now)
  /\ req' = [req EXCEPT !.sleeps = Min(@ + 1, 1)]
  /\ UNCHANGED <<file, state, pc, ret, motorLog, gpio, driverVars>>

WaitNext == WaitBurst \/ WaitCall \/ WaitReturn \/ WaitSleep

\* the process goes on running: the loop takes its next turn
SpecWait ==
  WaitInit /\ [][WaitNext]_vars /\ WF_vars(WaitReturn) /\ WF_vars(WaitSleep)

(***************************************************************************)
(* scripts/reset_to_lowest.py, scripts/move_to_height.py and               *)
(* scripts/move_to_height_no_reset.py: the stand-alone scripts, run one    *)
(* after the other by an operator. None of them imports duty_cycle.        *)
(***************************************************************************)
\* time.sleep(56.0): the travel from the highest to the lowest position
ResetSeconds == 56
\* heights the operator types in, the last one out of range
ScriptTargets == {LOWEST_HEIGHT, LOWEST_HEIGHT + 30 * UP_RATE, HIGHEST_HEIGHT,
                  HIGHEST_HEIGHT + 1}
ScriptCurrents == {LOWEST_HEIGHT, HIGHEST_HEIGHT}
\* instants the clock is at when the operator comes back
ScriptInstants == {1000, 2000}

ScriptInit ==
  /\ now = 0
  /\ file = NoFile
  /\ state = PrefectDefaultState(0)
  /\ pc = "idle"
  /\ req = NoReq
  /\ ret = NoRet
  /\ motorLog = <<>>
  /\ on_periods_queue = <<>>
  /\ Quiet

\* move_to_height_no_reset.py, lines 31-38: the JSON object as it is, or
\* a dict with total_up_time 0.0 and last_position None
script_load_state(f) ==
  IF f.exists THEN f.data ELSE [total_up_time |-> 0, last_position |-> None]

\* reset_to_lowest.py, lines 19-25: release_down, press_down
ResetCall ==
  /\ pc = "idle"
  /\ Len(motorLog) < MaxBursts
  /\ pc' = "reset"
  /\ req' = [op |-> "reset_to_lowest", direction |-> "down",
             seconds |-> ResetSeconds, start_time |-> now]
  /\ gpio' = press_down(release_down(gpio))
  /\ UNCHANGED <<now, file, state, ret, motorLog, on_periods_queue, driverVars>>

\* reset_to_lowest.py, lines 26-33: the sleep of 56 s is over, the line is
\* released, the finally releases it again and cleans up
ResetDone ==
  /\ pc = "reset"
  /\ now' = req.start_time + req.seconds
  /\ motorLog' = Append(motorLog, <<req.start_time, now'>>)
  /\ gpio' = release_down(release_down(gpio))
  /\ ret' = [op |-> "reset_to_lowest", raised |-> "nothing", t |-> now']
  /\ pc' = "idle"
  /\ req' = NoReq
  /\ UNCHANGED <<file, state, on_periods_queue, driverVars>>

\* move_to_height.py, lines 26-33: the range check, then step 1, the
\* reset to the lowest position: release_down, press_down
ScriptMoveCall ==
  /\ pc = "idle"
  /\ Len(motorLog) + 1 < MaxBursts
  /\ \E target_height \in ScriptTargets :
       IF ~in_range(target_height)
       THEN /\ ret' = [op |-> "move_to_height.py", raised |-> "OutOfRange",
                       t |-> now, target_height |-> target_height]
            /\ gpio' = release_down(release_up(gpio))
            /\ UNCHANGED <<pc, req>>
       ELSE /\ pc' = "script_down"
            /\ req' = [op |-> "move_to_height.py",
                       target_height |-> target_height, direction |-> "down",
                       seconds |-> ResetSeconds, start_time |-> now]
            /\ gpio' = press_down(release_down(gpio))
            /\ UNCHANGED ret
  /\ UNCHANGED <<now, file, state, motorLog, on_periods_queue, driverVars>>

\* move_to_height.py, lines 34-43: the sleep of 56 s is over, release_down;
\* step 2: up_time = delta / UP_RATE, release_up, press_up
ScriptMoveUp ==
  /\ pc = "script_down"
  /\ now' = req.start_time + req.seconds
  /\ motorLog' = Append(motorLog, <<req.start_time, now'>>)
  /\ gpio' = press_up(release_up(release_down(gpio)))
  /\ req' = [req EXCEPT !.direction = "up", !.start_time = now',
                        !.seconds = CeilDiv(req.target_height - LOWEST_HEIGHT,
                                            UP_RATE)]
  /\ pc' = "script_up"
  /\ UNCHANGED <<file, state, ret, on_periods_queue, driverVars>>

\* move_to_height.py, lines 44-46 and 52-55: the sleep of up_time is over,
\* release_up, and the finally of the script
ScriptMoveDone ==
  /\ pc = "script_up"
  /\ now' = req.start_time + req.seconds
  /\ motorLog' = Append(motorLog, <<req.start_time, now'>>)
  /\ gpio' = release_down(release_up(release_up(gpio)))
  /\ ret' = [op |-> "move_to_height.py", raised |-> "nothing", t |-> now',
             target_height |-> req.target_height]
  /\ pc' = "idle"
  /\ req' = NoReq
  /\ UNCHANGED <<file, state, on_periods_queue, driverVars>>

\* move_to_height_no_reset.py, lines 44-58 / 62-68: load_state, the range
\* check, the tolerance, the duration, release and press of the line
NoResetCall ==
  /\ pc = "idle"
  /\ Len(motorLog) < MaxBursts
  /\ \E target_height \in ScriptTargets, current_height \in ScriptCurrents :
       LET delta == target_height - current_height
       IN
       IF ~in_range(target_height)
       THEN /\ ret' = [op |-> "move_to_height_no_reset.py",
                       raised |-> "OutOfRange", t |-> now,
                       target_height |-> target_height]
            /\ gpio' = release_down(release_up(gpio))
            /\ UNCHANGED <<pc, req, state>>
       ELSE IF within_tolerance(delta)
       THEN /\ ret' = [op |-> "move_to_height_no_reset.py",
                       raised |-> "nothing", movement |-> "none", t |-> now,
                       target_height |-> target_height]
            /\ gpio' = release_down(release_up(gpio))
            /\ UNCHANGED <<pc, req, state>>
       ELSE /\ pc' = "no_reset"
            /\ state' = script_load_state(file)
            /\ req' = [op |-> "move_to_height_no_reset.py",
                       target_height |-> target_height,
                       current_height |-> current_height,
                       direction |-> IF delta > 0 THEN "up" ELSE "down",
                       seconds |-> IF delta > 0 THEN CeilDiv(delta, UP_RATE)
                                   ELSE CeilDiv(Abs(delta), DOWN_RATE),
                       start_time |-> now]
            /\ gpio' = start_burst(IF delta > 0 THEN "up" ELSE "down", gpio)
            /\ UNCHANGED ret
  /\ UNCHANGED <<now, file, motorLog, on_periods_queue, driverVars>>

\* move_to_height_no_reset.py, lines 59-61 / 69-74 and 81-84: the sleep is
\* over, the line released, total_up_time and last_position updated,
\* save_state, and the finally of the script
NoResetDone ==
  /\ pc = "no_reset"
  /\ now' = req.start_time + req.seconds
  /\ motorLog' = Append(motorLog, <<req.start_time, now'>>)
  /\ gpio' = release_down(release_up(end_burst(req.direction, gpio)))
  /\ LET moved == IF req.direction = "up"
                    THEN [state EXCEPT !.total_up_time = @ + req.seconds]
                    ELSE state
         saved == [moved EXCEPT !.last_position = req.target_height]
     IN  /\ file' = save_state(saved)
         /\ state' = saved
  /\ ret' = [op |-> "move_to_height_no_reset.py", raised |-> "nothing",
             t |-> now', target_height |-> req.target_height]
  /\ pc' = "idle"
  /\ req' = NoReq
  /\ UNCHANGED <<on_periods_queue, driverVars>>

\* the operator waits before the next script
ScriptTick ==
  /\ pc = "idle"
  /\ \E t \in ScriptInstants : t > now /\ now' = t
  /\ UNCHANGED <<file, state, pc, req, ret, motorLog, on_periods_queue,
                 gpio, driverVars>>

ScriptNext ==
  \/ ResetCall \/ ResetDone
  \/ ScriptMoveCall \/ ScriptMoveUp \/ ScriptMoveDone
  \/ NoResetCall \/ NoResetDone
  \/ ScriptTick

SpecScripts == ScriptInit /\ [][ScriptNext]_vars

(***************************************************************************)
(* pi/lg07_lift/lift_driver.py: press_up, press_down, nudge,               *)
(* emergency_stop and cleanup called from several threads, and app.py's    *)
(* signal_handler, which Python runs in the main thread between two        *)
(* statements of whatever that thread was doing. The relays are active     *)
(* low: GPIO LOW is a driven line, GPIO HIGH a released one; a pin that    *)
(* was never set up, or was cleaned up, is an input ("unset") and drives   *)
(* nothing. Each thread takes one statement at a time; _init_gpio reads    *)
(* and writes _initialized outside the lock; _lock is a threading.Lock,    *)
(* which its own holder cannot take again.                                 *)
(***************************************************************************)
DriverThreads == {"t1", "t2"}
\* the thread that runs app.main, and so the signal handler
MainThread == "t1"
\* what press_up / press_down are called with: time.sleep raises ValueError
\* for a negative length
PressSeconds == {0 - 1, 1}
\* what nudge is called with
NudgeDirections == {"up", "DOWN", "left"}
NudgeSeconds == {0, 1}

IdleThread == [pc |-> "idle", fn |-> "none", direction |-> "none",
               seconds |-> 0, line |-> "none", trace |-> <<>>,
               result |-> "none", next |-> <<>>]

\* no pin is set up
Unset == [up |-> "unset", down |-> "unset"]

DriverInit ==
  /\ now = 0
  /\ file = NoFile
  /\ state = DefaultState
  /\ pc = "idle"
  /\ req = NoReq
  /\ ret = NoRet
  /\ motorLog = <<>>
  /\ on_periods_queue = <<>>
  /\ gpio = Unset
  /\ threads = [t \in DriverThreads |-> IdleThread]
  /\ _lock = "free"
  /\ _initialized = FALSE

\* mutant: nothing is released
release_none(g) == g

\* GPIO.output(PIN_UP, GPIO.HIGH); GPIO.output(PIN_DOWN, GPIO.HIGH)
_release_all(g) == [up |-> "released", down |-> "released"]

\* GPIO.output(PIN_UP, GPIO.LOW) / GPIO.output(PIN_DOWN, GPIO.LOW)
output_low(line, g) ==
  IF line = "up" THEN [g EXCEPT !.up = "driven"]
  ELSE [g EXCEPT !.down = "driven"]

\* GPIO.output raises RuntimeError for a channel that is not set up as an
\* output
is_output(g) == g.up # "unset" /\ g.down # "unset"

\* str.lower() over the directions nudge is called with
lower(direction) ==
  CASE direction = "UP" -> "up"
    [] direction = "DOWN" -> "down"
    [] OTHER -> direction

\* mutant: a burst of no length is accepted
nudge_accepts_zero(direction, seconds) ==
  lower(direction) \in {"up", "down"} /\ seconds >= 0

\* nudge, lines 70-75: the two checks that raise ValueError
nudge_valid(direction, seconds) ==
  lower(direction) \in {"up", "down"} /\ seconds > 0

\* a call returns: to its caller's next statement, or to the thread's caller
return_to(th, result) ==
  IF th.next = <<>>
  THEN [th EXCEPT !.pc = "idle", !.result = result]
  ELSE [th EXCEPT !.pc = Head(th.next), !.next = Tail(th.next)]

\* an exception leaves the call, and the calls around it
raise(th, error) ==
  [th EXCEPT !.pc = IF th.fn = "signal_handler" THEN "exited" ELSE "idle",
             !.result = error, !.next = <<>>]

\* what the driver leaves alone
driverRest == <<now, file, state, pc, req, ret, motorLog, on_periods_queue>>

\* the statements of press_up / press_down
PressPcs == {"init", "setup", "flag", "acquire", "release", "drive",
             "sleep", "released", "unlock"}

\* a thread calls press_up, press_down, nudge, emergency_stop or cleanup;
\* nudge raises ValueError for a direction it does not know and for
\* seconds <= 0, and calls press_up / press_down otherwise
DriverCall ==
  \E t \in DriverThreads :
    /\ threads[t].pc = "idle"
    /\ \/ \E line \in {"up", "down"}, seconds \in PressSeconds :
            threads' = [threads EXCEPT ![t] =
              [IdleThread EXCEPT !.pc = "init", !.fn = "press_" \o line,
                                 !.seconds = seconds, !.line = line]]
       \/ \E direction \in NudgeDirections, seconds \in NudgeSeconds :
            threads' = [threads EXCEPT ![t] =
              IF nudge_valid(direction, seconds)
              THEN [IdleThread EXCEPT !.pc = "init", !.fn = "nudge",
                                      !.direction = direction,
                                      !.seconds = seconds,
                                      !.line = lower(direction)]
              ELSE [IdleThread EXCEPT !.fn = "nudge",
                                      !.direction = direction,
                                      !.seconds = seconds,
                                      !.result = "ValueError"]]
       \/ threads' = [threads EXCEPT ![t] =
              [IdleThread EXCEPT !.pc = "stop", !.fn = "emergency_stop"]]
       \/ threads' = [threads EXCEPT ![t] =
              [IdleThread EXCEPT !.pc = "cleanup", !.fn = "cleanup"]]
    /\ UNCHANGED <<driverRest, gpio, _lock, _initialized>>

\* _init_gpio, lines 25-27: "if _initialized: return"
InitGpioCheck ==
  \E t \in DriverThreads :
    /\ threads[t].pc = "init"
    /\ threads' = [threads EXCEPT ![t].pc =
                     IF _initialized THEN "acquire" ELSE "setup"]
    /\ UNCHANGED <<driverRest, gpio, _lock, _initialized>>

\* _init_gpio, lines 29-31: both pins become outputs, initially HIGH
InitGpioSetup ==
  \E t \in DriverThreads :
    /\ threads[t].pc = "setup"
    /\ gpio' = [up |-> "released", down |-> "released"]
    /\ threads' = [threads EXCEPT ![t].pc = "flag"]
    /\ UNCHANGED <<driverRest, _lock, _initialized>>

\* _init_gpio, line 33: _initialized = True
InitGpioDone ==
  \E t \in DriverThreads :
    /\ threads[t].pc = "flag"
    /\ _initialized' = TRUE
    /\ threads' = [threads EXCEPT ![t].pc = "acquire"]
    /\ UNCHANGED <<driverRest, gpio, _lock>>

\* "with _lock:" of press_up / press_down
LockAcquire ==
  \E t \in DriverThreads :
    /\ threads[t].pc = "acquire"
    /\ _lock = "free"
    /\ _lock' = t
    /\ threads' = [threads EXCEPT ![t].pc = "release"]
    /\ UNCHANGED <<driverRest, gpio, _initialized>>

\* the first _release_all() of the burst
ReleaseBefore ==
  \E t \in DriverThreads :
    /\ threads[t].pc = "release"
    /\ is_output(gpio)
    /\ gpio' = _release_all(gpio)
    /\ threads' = [threads EXCEPT ![t].pc = "drive",
                                  ![t].trace = Append(@, "release")]
    /\ UNCHANGED <<driverRest, _lock, _initialized>>

\* GPIO.output(PIN, GPIO.LOW)
Drive ==
  \E t \in DriverThreads :
    /\ threads[t].pc = "drive"
    /\ is_output(gpio)
    /\ gpio' = output_low(threads[t].line, gpio)
    /\ threads' = [threads EXCEPT ![t].pc = "sleep",
                                  ![t].trace = Append(@, "drive")]
    /\ UNCHANGED <<driverRest, _lock, _initialized>>

\* time.sleep(seconds) returns
SleepDone ==
  \E t \in DriverThreads :
    /\ threads[t].pc = "sleep"
    /\ threads[t].seconds >= 0
    /\ threads' = [threads EXCEPT ![t].pc = "released",
                                  ![t].trace = Append(@, "sleep")]
    /\ UNCHANGED <<driverRest, gpio, _lock, _initialized>>

\* time.sleep(seconds) raises, ValueError for a negative length, or is
\* interrupted: the exception leaves the with block, which gives the lock
\* back; the second _release_all() does not run
SleepInterrupted ==
  \E t \in DriverThreads :
    /\ threads[t].pc = "sleep"
    /\ _lock' = "free"
    /\ threads' = [threads EXCEPT ![t] =
                     raise(@, IF threads[t].seconds < 0 THEN "ValueError"
                              ELSE "Interrupted")]
    /\ UNCHANGED <<driverRest, gpio, _initialized>>

\* the second _release_all() of the burst
ReleaseAfter ==
  \E t \in DriverThreads :
    /\ threads[t].pc = "released"
    /\ is_output(gpio)
    /\ gpio' = _release_all(gpio)
    /\ threads' = [threads EXCEPT ![t].pc = "unlock",
                                  ![t].trace = Append(@, "release")]
    /\ UNCHANGED <<driverRest, _lock, _initialized>>

\* the end of the with block: the lock is given back, the call returns
LockRelease ==
  \E t \in DriverThreads :
    /\ threads[t].pc = "unlock"
    /\ _lock' = "free"
    /\ threads' = [threads EXCEPT ![t] = return_to(@, "returned")]
    /\ UNCHANGED <<driverRest, gpio, _initialized>>

\* emergency_stop, lines 87-88: "if not _initialized: return"
StopCheck ==
  \E t \in DriverThreads :
    /\ threads[t].pc = "stop"
    /\ threads' = [threads EXCEPT ![t] =
                     IF _initialized THEN [@ EXCEPT !.pc = "stop_acquire"]
                     ELSE return_to(@, "returned")]
    /\ UNCHANGED <<driverRest, gpio, _lock, _initialized>>

\* emergency_stop, line 89: "with _lock:" waits until the lock is free,
\* whoever holds it
StopAcquire ==
  \E t \in DriverThreads :
    /\ threads[t].pc = "stop_acquire"
    /\ _lock = "free"
    /\ _lock' = t
    /\ threads' = [threads EXCEPT ![t].pc = "stop_release"]
    /\ UNCHANGED <<driverRest, gpio, _initialized>>

\* emergency_stop, line 90: _release_all(), and the lock is given back
StopRelease ==
  \E t \in DriverThreads :
    /\ threads[t].pc = "stop_release"
    /\ is_output(gpio)
    /\ gpio' = _release_all(gpio)
    /\ _lock' = "free"
    /\ threads' = [threads EXCEPT ![t] =
                     return_to([@ EXCEPT !.trace = Append(@, "release")],
                               "returned")]
    /\ UNCHANGED <<driverRest, _initialized>>

\* GPIO.output on a pin that is not set up raises RuntimeError; every
\* GPIO.output of the driver is inside a with block, which gives the lock
\* back
OutputError ==
  \E t \in DriverThreads :
    /\ threads[t].pc \in {"release", "drive", "released", "stop_release"}
    /\ ~is_output(gpio)
    /\ _lock' = "free"
    /\ threads' = [threads EXCEPT ![t] = raise(@, "RuntimeError")]
    /\ UNCHANGED <<driverRest, gpio, _initialized>>

\* cleanup, lines 97-98: "if _initialized: emergency_stop()"
CleanupCheck ==
  \E t \in DriverThreads :
    /\ threads[t].pc = "cleanup"
    /\ threads' = [threads EXCEPT ![t] =
                     IF _initialized
                     THEN [@ EXCEPT !.pc = "stop",
                                    !.next = <<"gpio_cleanup">> \o @]
                     ELSE return_to(@, "returned")]
    /\ UNCHANGED <<driverRest, gpio, _lock, _initialized>>

\* cleanup, line 99: GPIO.cleanup() makes both pins inputs again;
\* _initialized is left as it is
GpioCleanup ==
  \E t \in DriverThreads :
    /\ threads[t].pc = "gpio_cleanup"
    /\ gpio' = [up |-> "unset", down |-> "unset"]
    /\ threads' = [threads EXCEPT ![t] = return_to(@, "returned")]
    /\ UNCHANGED <<driverRest, _lock, _initialized>>

\* app.signal_handler: SIGINT / SIGTERM arrives while the main thread is in
\* press_up / press_down; the handler runs in that thread, on top of the
\* interrupted call: emergency_stop(), cleanup(), sys.exit(0), and then the
\* cleanup() of main's finally
Signal ==
  /\ threads[MainThread].pc \in PressPcs
  /\ threads' = [threads EXCEPT ![MainThread] =
                   [IdleThread EXCEPT !.pc = "stop", !.fn = "signal_handler",
                                      !.next = <<"cleanup", "exit",
                                                 "cleanup", "exited">>]]
  /\ UNCHANGED <<driverRest, gpio, _lock, _initialized>>

\* sys.exit(0): SystemExit leaves the handler and the interrupted call,
\* whose with block gives the lock back if the call held it
SysExit ==
  \E t \in DriverThreads :
    /\ threads[t].pc = "exit"
    /\ _lock' = IF _lock = t THEN "free" ELSE _lock
    /\ threads' = [threads EXCEPT ![t] =
                     [@ EXCEPT !.pc = Head(threads[t].next),
                               !.next = Tail(threads[t].next),
                               !.result = "SystemExit"]]
    /\ UNCHANGED <<driverRest, gpio, _initialized>>

DriverNext ==
  \/ DriverCall \/ InitGpioCheck \/ InitGpioSetup \/ InitGpioDone
  \/ LockAcquire \/ ReleaseBefore \/ Drive \/ SleepDone \/ SleepInterrupted
  \/ ReleaseAfter \/ LockRelease \/ StopCheck \/ StopAcquire \/ StopRelease
  \/ OutputError \/ CleanupCheck \/ GpioCleanup \/ Signal \/ SysExit

SpecDriver == DriverInit /\ [][DriverNext]_vars

(***************************************************************************)
(* scripts/desk_controller.py: move_to_height called by two processes at   *)
(* the same time (two shells, a flow run and the command line). Each has   *)
(* its own state dict; the file and the two lines are shared, and nothing  *)
(* in the code takes a lock around them. Sleeps last what was asked for.   *)
(***************************************************************************)
Procs == {"p1", "p2"}
\* requests one process makes
MaxCalls == 3
\* the instants at which something happens
ConcInstants == {30 * k : k \in 0..5}
\* the two ends of every request: 30 s up, 30 s down
ConcHeights == {LOWEST_HEIGHT, LOWEST_HEIGHT + 30 * UP_RATE}

IdleProc == [pc |-> "idle", state |-> DefaultState, req |-> NoReq,
             calls |-> 0, recorded |-> <<>>]

ConcInit ==
  /\ now = 0
  /\ file = NoFile
  /\ state = DefaultState
  /\ pc = "idle"
  /\ req = NoReq
  /\ ret = NoRet
  /\ motorLog = <<>>
  /\ on_periods_queue = <<>>
  /\ gpio = Released
  /\ threads = [p \in Procs |-> IdleProc]
  /\ _lock = "free"
  /\ _initialized = FALSE

AnyDriven(g) == g.up = "driven" \/ g.down = "driven"

\* the motor as the lines make it run: an interval opens when a line
\* becomes driven while none was, and closes when both are released; an
\* interval still open has None as its end
motor_log(log, g, g2, t) ==
  IF ~AnyDriven(g) /\ AnyDriven(g2) THEN Append(log, <<t, None>>)
  ELSE IF AnyDriven(g) /\ ~AnyDriven(g2)
    THEN [log EXCEPT ![Len(log)] = <<@[1], t>>]
  ELSE log

\* what the two processes leave alone
concRest == <<state, pc, req, ret, on_periods_queue, _lock, _initialized>>

\* move_to_height, lines 34-72 / 81-93: setup_gpio, load_state, the
\* duration, check_duty_cycle_limits; a rejection leaves through the
\* finally, whose cleanup_gpio releases both lines
ConcLoad ==
  \E p \in Procs, target_height \in ConcHeights, current_height \in ConcHeights :
    /\ threads[p].pc = "idle"
    /\ threads[p].calls < MaxCalls
    /\ target_height # current_height
    /\ LET loaded == load_state(file)
           delta == target_height - current_height
           required_time == IF delta > 0 THEN CeilDiv(delta, UP_RATE)
                            ELSE CeilDiv(Abs(delta), DOWN_RATE)
           chk == check_duty_cycle_limits(loaded.usage_periods, now, required_time)
       IN  IF ~chk.is_valid
           THEN /\ gpio' = cleanup_gpio(setup_gpio(gpio))
                /\ threads' = [threads EXCEPT ![p].calls = @ + 1]
           ELSE /\ gpio' = setup_gpio(gpio)
                /\ threads' = [threads EXCEPT
                     ![p].pc = "authorized",
                     ![p].calls = @ + 1,
                     ![p].state = [loaded EXCEPT !.usage_periods = chk.periods],
                     ![p].req = [op |-> "move_to_height",
                                 target_height |-> target_height,
                                 direction |-> IF delta > 0 THEN "up" ELSE "down",
                                 required_time |-> required_time,
                                 current_usage |-> chk.current_usage]]
    /\ motorLog' = motor_log(motorLog, gpio, gpio', now)
    /\ UNCHANGED <<now, file, concRest>>

\* move_up / move_down: release, start_time = time.time(), press
ConcPress ==
  \E p \in Procs :
    /\ threads[p].pc = "authorized"
    /\ gpio' = start_burst(threads[p].req.direction, gpio)
    /\ threads' = [threads EXCEPT
         ![p].pc = "moving",
         ![p].req = [@ EXCEPT !.op = "moving"] @@ [start_time |-> now]]
    /\ motorLog' = motor_log(motorLog, gpio, gpio', now)
    /\ UNCHANGED <<now, file, concRest>>

\* the sleep is over: release, record_usage_period, total_up_time,
\* last_position, save_state, and the finally's cleanup_gpio
ConcDone ==
  \E p \in Procs :
    LET r == threads[p].req
        m == move_measured(r.start_time, r.required_time, 0)
        recorded == record_usage_period(threads[p].state.usage_periods,
                                        m[1], m[2], m[3])
        saved == [threads[p].state EXCEPT
                    !.usage_periods = recorded,
                    !.last_position = r.target_height,
                    !.total_up_time = new_total_up_time(@, r.direction, m[3])]
    IN  /\ threads[p].pc = "moving"
        /\ now = r.start_time + r.required_time
        /\ file' = save_state(saved)
        /\ gpio' = cleanup_gpio(end_burst(r.direction, gpio))
        /\ motorLog' = motor_log(motorLog, gpio, gpio', now)
        /\ threads' = [threads EXCEPT
             ![p].pc = "idle", ![p].state = DefaultState, ![p].req = NoReq,
             ![p].recorded = Append(@, <<m[1], m[2], m[3]>>)]
        /\ UNCHANGED <<now, concRest>>

\* time passes, but not past the end of a sleep, and not between a check
\* and the press that follows it at once
ConcTick ==
  /\ \E t \in ConcInstants :
       /\ t > now
       /\ \A u \in ConcInstants : u > now => t <= u
       /\ now' = t
  /\ \A p \in Procs :
       /\ threads[p].pc # "authorized"
       /\ threads[p].pc = "moving" =>
            now < threads[p].req.start_time + threads[p].req.required_time
  /\ UNCHANGED <<file, gpio, threads, motorLog, concRest>>

ConcNext == ConcLoad \/ ConcPress \/ ConcDone \/ ConcTick

SpecConc == ConcInit /\ [][ConcNext]_vars

(***************************************************************************)
(* Reference notions the claims are stated with.                           *)
(***************************************************************************)
Range(f) == {f[i] : i \in DOMAIN f}

RECURSIVE SumOver(_, _)
\* the sum of f[x] over the finite set S
SumOver(S, f) ==
  IF S = {} THEN 0
  ELSE LET x == CHOOSE y \in S : TRUE IN f[x] + SumOver(S \ {x}, f)

\* the measure of [t - DUTY_CYCLE_PERIOD, t] intersected with the union of
\* the intervals: the window is cut at every interval end point, and a piece
\* counts once when some interval covers it
UnionMeasure(periods, t) ==
  LET ws     == t - DUTY_CYCLE_PERIOD
      clip(x) == Max(ws, Min(x, t))
      cuts   == {ws, t} \cup {clip(p[1]) : p \in Range(periods)}
                        \cup {clip(p[2]) : p \in Range(periods)}
      lefts  == {c \in cuts : \E d \in cuts : d > c}
      next(c) == CHOOSE d \in cuts : d > c /\ \A e \in cuts : e > c => d <= e
      piece  == [c \in lefts |->
                   IF \E p \in Range(periods) : p[1] <= c /\ next(c) <= p[2]
                     THEN next(c) - c ELSE 0]
  IN  SumOver(lefts, piece)

\* the length of the part of one interval inside the window, by cases
ClampedOverlap(p, t) ==
  LET ws == t - DUTY_CYCLE_PERIOD
  IN  CASE p[2] <= ws \/ p[1] >= t \/ p[2] <= p[1] -> 0
        [] p[1] < ws /\ p[2] <= t -> p[2] - ws
        [] p[1] < ws /\ p[2] > t  -> t - ws
        [] p[1] >= ws /\ p[2] <= t -> p[2] - p[1]
        [] OTHER -> t - p[1]

\* every list position counted once
ClampedSum(periods, t) ==
  SumOver(DOMAIN periods, [i \in DOMAIN periods |-> ClampedOverlap(periods[i], t)])

\* no two entries of the list share more than an end point
PairwiseDisjoint(periods) ==
  \A i, j \in DOMAIN periods :
    i < j => (periods[i][2] <= periods[j][1] \/ periods[j][2] <= periods[i][1])

RECURSIVE IsSubseq(_, _)
\* a is b with some entries left out, the others in b's order
IsSubseq(a, b) ==
  IF a = <<>> THEN TRUE
  ELSE IF b = <<>> THEN FALSE
  ELSE IF Head(a) = Head(b) THEN IsSubseq(Tail(a), Tail(b))
  ELSE IsSubseq(a, Tail(b))

(***************************************************************************)
(* Claims.                                                                 *)
(***************************************************************************)

\* C4 as stated: whatever the recorded intervals are (overlapping ones and
\* any order included), get_current_duty_cycle_usage returns the measure of
\* the window intersected with the union of the intervals.
C4_UsageIsUnionMeasure ==
  ret.op = "usage" => ret.value = UnionMeasure(ret.before, ret.t)

\* C4 amended: get_current_duty_cycle_usage never returns less than the
\* measure of the window intersected with the union of the intervals, in any
\* order of the list, and returns exactly that measure when no two intervals
\* overlap; intervals that overlap each other are counted once each.
C4_UsageCoversUnionMeasure ==
  ret.op = "usage" =>
    /\ ret.value >= UnionMeasure(ret.before, ret.t)
    /\ PairwiseDisjoint(ret.before) => ret.value = UnionMeasure(ret.before, ret.t)

\* C4 witness: usage was computed over two intervals recorded out of
\* chronological order, one of them straddling the window start
C4_Witness ==
  /\ ret.op = "usage"
  /\ Len(ret.before) = 2
  /\ PairwiseDisjoint(ret.before)
  /\ ret.before[1][1] > ret.before[2][1]
  /\ ret.before[2][1] < ret.t - DUTY_CYCLE_PERIOD
  /\ ret.before[2][2] > ret.t - DUTY_CYCLE_PERIOD
  /\ ret.value > 0

\* C5: for pairwise non-overlapping intervals get_current_duty_cycle_usage
\* is the sum, each interval taken once, of the interval's part inside
\* [now - window_period, now]: nothing for an interval before the window,
\* the in-window part for one straddling the window start ([T-1210, T-1190]
\* gives 10).
C5_NoDoubleBooking ==
  (ret.op = "usage" /\ PairwiseDisjoint(ret.before)) =>
    /\ ret.value = ClampedSum(ret.before, ret.t)
    /\ (ret.before = <<<<ret.t - 1210, ret.t - 1190, 20>>>>) => ret.value = 10

\* C5 witness: Scenario C followed by a second, non-overlapping interval
C5_Witness ==
  /\ ret.op = "usage"
  /\ Len(ret.before) = 2
  /\ ret.before[1] = <<ret.t - 1210, ret.t - 1190, 20>>
  /\ PairwiseDisjoint(ret.before)
  /\ ret.value > 10

\* C6: after clean_old_usage_periods no kept interval ends at or before
\* now - window_period, every interval that has a part inside the window is
\* kept, and the kept intervals are in their former order.
C6_MonotonicPruning ==
  ret.op = "clean" =>
    LET ws == ret.t - DUTY_CYCLE_PERIOD
        after == state.usage_periods
    IN  /\ \A i \in DOMAIN after : after[i][2] > ws
        /\ IsSubseq(after, ret.before)
        /\ Len(after) = Cardinality({i \in DOMAIN ret.before : ret.before[i][2] > ws})
        /\ \A i \in DOMAIN ret.before :
             ClampedOverlap(ret.before[i], ret.t) > 0 => ret.before[i] \in Range(after)

\* C6 witness: one clean dropped an expired interval and kept a straddling
\* one and a later one
C6_Witness ==
  /\ ret.op = "clean"
  /\ Len(ret.before) = 3
  /\ Len(state.usage_periods) = 2
  /\ state.usage_periods[1][1] < ret.t - DUTY_CYCLE_PERIOD

\* C7: a second clean_old_usage_periods at the same instant changes nothing.
C7_PruneIdempotent ==
  (ret.op = "clean" /\ ret.again) => state.usage_periods = ret.before

\* C7 witness: the first clean removed something, the second ran after it
C7_Witness ==
  ret.op = "clean" /\ ret.again /\ ret.removed > 0 /\ state.usage_periods # <<>>

\* C2: neither check authorizes when the usage inside the window plus the
\* requested duration exceeds max_on_time, and neither rejects when that sum
\* is within max_on_time and the request within max_continuous_burst.
C2_AuthorizationSound ==
  ret.op = "check" =>
    LET r == ret.required_time
        u == ClampedSum(ret.before, ret.t)
        q == ClampedSum(ret.qbefore, ret.t)
    IN  /\ u + r > DUTY_CYCLE_MAX_ON_TIME => ~ret.is_valid
        /\ q + r > DUTY_CYCLE_MAX_ON_TIME => ~ret.ok
        /\ (u + r <= DUTY_CYCLE_MAX_ON_TIME /\ r <= MAX_CONTINUOUS_RUNTIME)
             => ret.is_valid
        /\ (q + r <= DUTY_CYCLE_MAX_ON_TIME /\ r <= MAX_CONTINUOUS_RUNTIME)
             => ret.ok

\* C8: a request longer than max_continuous_burst is rejected as
\* BurstTooLong by both checks whatever the ledger holds, now and at every
\* later instant.
C8_BurstTooLongNeverAuthorized ==
  /\ (ret.op = "check" /\ ret.required_time > MAX_CONTINUOUS_RUNTIME) =>
       /\ ~ret.is_valid /\ ret.message.reason = "BurstTooLong"
       /\ ~ret.ok /\ ret.error.reason = "BurstTooLong"
  /\ \A t \in ApiInstants \cup {now}, r \in ApiDurations :
       (t >= now /\ r > MAX_CONTINUOUS_RUNTIME) =>
         /\ ~check_duty_cycle_limits(state.usage_periods, t, r).is_valid
         /\ check_duty_cycle_limits(state.usage_periods, t, r).reason = "BurstTooLong"
         /\ ~check_timing_limits(on_periods_queue, t, r).ok
         /\ check_timing_limits(on_periods_queue, t, r).reason = "BurstTooLong"

\* C8 witness: the too-long request was rejected on an empty ledger, and
\* time has passed since
C8_Witness ==
  /\ ret.op = "check"
  /\ ret.required_time > MAX_CONTINUOUS_RUNTIME
  /\ ret.before = <<>> /\ ret.qbefore = <<>>
  /\ ~ret.is_valid /\ ~ret.ok
  /\ now > ret.t + DUTY_CYCLE_PERIOD

C10_RetryAfterWaitHint ==
  /\ (ret.op = "check" /\ ~ret.ok /\ ret.error.reason = "DutyCycleExceeded") =>
       check_timing_limits(on_periods_queue, ret.t + ret.error.wait_time,
                           ret.required_time).ok
  /\ (ret.op = "check" /\ ~ret.is_valid
        /\ ret.message.reason = "DutyCycleExceeded") =>
       check_duty_cycle_limits(
         state.usage_periods,
         ret.t + (ret.required_time - Max(0, ret.message.remaining_time)),
         ret.required_time).is_valid

\* C1: when no request is running, the recorded intervals overlap
\* [now - window_period, now] for at most max_on_time in total.
C1_WindowedOnTimeBounded ==
  pc = "idle" =>
    ClampedSum(load_state(file).usage_periods, now) <= DUTY_CYCLE_MAX_ON_TIME

\* how often the ledgers hold the interval of one burst
RecordedCount(m) ==
  Cardinality({j \in DOMAIN load_state(file).usage_periods :
                 load_state(file).usage_periods[j] = <<m[1], m[2], m[2] - m[1]>>})
  + Cardinality({j \in DOMAIN on_periods_queue :
                   on_periods_queue[j] = <<m[1], m[2]>>})

\* C3: every burst that drove the motor and ended inside the current
\* window, one cut short included, is in the ledger exactly once, with the
\* time that actually elapsed.
C3_EveryBurstRecorded ==
  \A i \in DOMAIN motorLog :
    motorLog[i][2] > now - DUTY_CYCLE_PERIOD => RecordedCount(motorLog[i]) = 1

\* the ledger holds one burst of d seconds that lies inside the window at t
OneBurstInWindow(periods, d, t) ==
  /\ Len(periods) = 1
  /\ periods[1][2] - periods[1][1] = d
  /\ periods[1][1] >= t - DUTY_CYCLE_PERIOD
  /\ periods[1][2] <= t

OutsideCalibratedRange(h) == h < LOWEST_HEIGHT \/ h > HIGHEST_HEIGHT

\* C12: a request whose target lies outside [lowest_height, highest_height]
\* ends in the out-of-range error and in nothing else, whatever the current
\* height is; no running request has such a target, and the step that raises
\* the error leaves the persisted state, both ledgers and the record of
\* driven intervals as they were.
C12_OutOfRangeRejected ==
  /\ [](("target_height" \in DOMAIN ret /\ OutsideCalibratedRange(ret.target_height))
         => ("raised" \in DOMAIN ret /\ ret.raised = "OutOfRange"))
  /\ [](pc \in {"moving", "chunk", "driving", "resting"}
         => ~OutsideCalibratedRange(req.target_height))
  /\ [][(ret' # ret /\ "raised" \in DOMAIN ret' /\ ret'.raised = "OutOfRange")
         => (file' = file /\ state' = state /\ motorLog' = motorLog
             /\ on_periods_queue' = on_periods_queue /\ pc' = pc)]_vars

\* C12 witness: the out-of-range error was raised when a state file with a
\* recorded interval existed and the caller left the current height out
C12_Witness ==
  /\ "raised" \in DOMAIN ret /\ ret.raised = "OutOfRange"
  /\ ret.target_height > HIGHEST_HEIGHT
  /\ ret.given = None
  /\ file.exists /\ file.data.usage_periods # <<>>
  /\ motorLog # <<>>

\* the state file holds a last position
HasLastPosition(f) ==
  f.exists /\ "last_position" \in DOMAIN f.data /\ f.data.last_position # None

\* C13: a request without current_height that is driving the motor took its
\* current height from the last position the state file holds; without one
\* the request does not get as far as driving the motor.
C13_UnknownPositionFails ==
  (pc = "moving" /\ req.given = None) =>
    (HasLastPosition(file) /\ req.current_height = file.data.last_position)

RECURSIVE SeqSum(_)
\* the sum of a sequence of numbers
SeqSum(q) == IF q = <<>> THEN 0 ELSE Head(q) + SeqSum(Tail(q))

\* the flow returned after the last burst of a request
FlowCompleted == ret.op = "move_to_height_flow" /\ "total_time" \in DOMAIN ret

\* for every duration from 1 to MaxDuration the planned bursts add up to it
ChunkingConservesDuration ==
  \A d \in 1..MaxDuration : SeqSum(planned_chunks(d)) = d

\* C15: the bursts move_with_chunking plans for a request add up to the
\* required duration, for every duration > 0, and a request that ran to its
\* end has executed every one of them.
C15_ChunkingConservation ==
  /\ ChunkingConservesDuration
  /\ pc \in {"chunk", "driving", "resting"} =>
       (req.total_time > 0 /\ SeqSum(req.chunks) = req.total_time)
  /\ FlowCompleted =>
       /\ Len(ret.bursts) = Len(ret.chunks)
       /\ SeqSum(ret.chunks) = ret.total_time

\* C15 witness: a chunked request of 70 s ran to its end
C15_Witness ==
  FlowCompleted /\ ret.total_time = 70 /\ Len(ret.bursts) = 3

\* for every duration from 1 to MaxDuration every planned burst is > 0 and
\* at most MAX_CONTINUOUS_RUNTIME
ChunksWithinBurstLimit ==
  \A d \in 1..MaxDuration :
    \A i \in DOMAIN planned_chunks(d) :
      planned_chunks(d)[i] > 0 /\ planned_chunks(d)[i] <= MAX_CONTINUOUS_RUNTIME

\* C16: every burst move_with_chunking asks move_up / move_down for lasts
\* more than 0 and at most max_continuous_burst, whatever the total is; a
\* total of 70 is run as the bursts 30, 30, 10.
C16_ChunksWithinCeiling ==
  /\ ChunksWithinBurstLimit
  /\ planned_chunks(70) = <<30, 30, 10>>
  /\ pc = "driving" =>
       (req.chunks[req.i] > 0 /\ req.chunks[req.i] <= MAX_CONTINUOUS_RUNTIME)
  /\ (pc \in {"chunk", "driving", "resting"} /\ req.total_time = 70) =>
       req.chunks = <<30, 30, 10>>

\* C16 witness: the last burst of a 70 s movement is being driven
C16_Witness ==
  pc = "driving" /\ req.total_time = 70 /\ req.i = 3 /\ req.chunks[req.i] = 10

\* consecutive bursts of one request lie at least the rest apart
RestedBetween(bursts) ==
  \A j \in 1..(Len(bursts) - 1) :
    bursts[j + 1][1] >= bursts[j][2] + RestBetweenChunks

\* C17: in move_with_chunking a rest lies between every two consecutive
\* bursts and none after the last: burst i starts after i - 1 rests and not
\* before the rest after burst i - 1 has elapsed, a request of n bursts
\* that ran to its end rested n - 1 times, a single-burst request not at all.
C17_RestBetweenChunks ==
  /\ pc \in {"chunk", "driving"} => req.rests = req.i - 1
  /\ pc = "driving" =>
       RestedBetween(Append(req.bursts, <<req.start_time, req.start_time>>))
  /\ pc = "resting" => (req.rests = req.i - 1 /\ req.i < Len(req.chunks))
  /\ FlowCompleted =>
       (ret.rests = Len(ret.chunks) - 1 /\ RestedBetween(ret.bursts))

\* C17 witness: a request of three bursts ran to its end
C17_Witness ==
  FlowCompleted /\ Len(ret.chunks) = 3 /\ ret.rests = 2 /\ Len(ret.bursts) = 3

\* C18: a burst is only driven after check_timing_limits authorized its
\* duration, in a single-burst request as in a chunked one.
C18_BurstPrecededByAuthorization ==
  pc = "driving" => req.checked

\* C19: no in-range movement request ends in the rejection "exceeds
\* maximum continuous runtime".
C19_NeverBurstTooLong ==
  /\ "error" \in DOMAIN ret => ret.error.reason # "BurstTooLong"
  /\ "raised" \in DOMAIN ret => ret.raised # "BurstTooLong"

\* the height the desk is at after the given bursts of a movement
PositionAfter(current_height, direction, durations) ==
  IF direction = "up" THEN current_height + UP_RATE * SeqSum(durations)
  ELSE current_height - DOWN_RATE * SeqSum(durations)

\* C20: when check_timing_limits has just rejected chunk k > 1, chunks 1 to
\* k - 1 and no others were driven, their intervals are in the ledger, an
\* error reached the caller, and the persisted position is the one the
\* k - 1 completed bursts led to.
C20_PartialMovementKept ==
  (pc = "idle" /\ ret.op = "move_to_height_flow" /\ ret.t = now
     /\ ret.raised = "DutyCycleExceeded" /\ ret.chunk > 1) =>
    /\ Len(ret.bursts) = ret.chunk - 1
    /\ \A j \in DOMAIN ret.bursts :
         \E i \in DOMAIN on_periods_queue : on_periods_queue[i] = ret.bursts[j]
    /\ HasLastPosition(file)
    /\ file.data.last_position =
         PositionAfter(ret.current_height, ret.direction,
                       SubSeq(ret.chunks, 1, ret.chunk - 1))

\* C20 with the persisted position left out: what does hold after the
\* rejection of chunk k > 1
C20_AbortKeepsIntervals ==
  (pc = "idle" /\ ret.op = "move_to_height_flow" /\ ret.t = now
     /\ ret.raised = "DutyCycleExceeded" /\ ret.chunk > 1) =>
    /\ Len(ret.bursts) = ret.chunk - 1
    /\ \A j \in DOMAIN ret.bursts :
         \E i \in DOMAIN on_periods_queue : on_periods_queue[i] = ret.bursts[j]

\* some interval of the queue starts before the window and ends inside it
Straddles(q, t) ==
  \E i \in DOMAIN q :
    q[i][1] < t - DUTY_CYCLE_PERIOD /\ t - DUTY_CYCLE_PERIOD < q[i][2]

\* C30: when an interval of the queue straddles the start of the window,
\* get_current_usage counts only the part of it inside [now - period, now]:
\* for non-overlapping intervals it returns the sum of the in-window parts.
C30_QueueUsageClamped ==
  (ret.op = "usage" /\ Straddles(ret.qbefore, ret.t)
     /\ PairwiseDisjoint(ret.qbefore)) =>
    ret.qvalue = ClampedSum(ret.qbefore, ret.t)

\* C29: the status query returns current_usage, max_usage, remaining_time,
\* percentage_used and window_period, with remaining_time =
\* max(0, max_usage - current_usage): 0 <= remaining_time <= max_usage, and
\* current_usage + remaining_time = max_usage whenever current_usage <=
\* max_usage; the query leaves the state file as it was.
C29_StatusQuery ==
  /\ [](ret.op = "status" =>
          LET d == ret.duty_cycle
          IN  /\ DOMAIN d = {"current_usage", "max_usage", "remaining_time",
                             "percentage_used", "window_period"}
              /\ d.max_usage = DUTY_CYCLE_MAX_ON_TIME
              /\ d.window_period = DUTY_CYCLE_PERIOD
              /\ d.current_usage = ClampedSum(ret.periods, ret.t)
              /\ d.remaining_time = Max(0, d.max_usage - d.current_usage)
              /\ 0 <= d.remaining_time /\ d.remaining_time <= d.max_usage
              /\ d.current_usage <= d.max_usage =>
                   d.current_usage + d.remaining_time = d.max_usage
              /\ d.percentage_used = (d.current_usage * 100) \div d.max_usage)
  /\ [][(ret' # ret /\ ret'.op = "status") => file' = file]_vars

\* C29 witness: the status was asked for when the ledger held more than
\* max_usage inside the window
C29_Witness ==
  /\ ret.op = "status"
  /\ ret.duty_cycle.current_usage > DUTY_CYCLE_MAX_ON_TIME
  /\ ret.duty_cycle.remaining_time = 0
  /\ file.exists

\* the call that has just returned drove all its bursts and saved the state
MovementCompleted(r) ==
  \/ r.op = "move_to_height" /\ r.success /\ r.movement \in {"up", "down"}
  \/ r.op = "move_to_height_flow" /\ "total_time" \in DOMAIN r
       /\ r.raised = "NameError"

\* the duration a completed movement adds to total_up_time
ExecutedDuration(r) ==
  IF r.op = "move_to_height" THEN r.duration ELSE r.total_time

\* C21: the step in which a movement ends after all its bursts persists the
\* state with last_position = target_height, with total_up_time grown by
\* the executed duration for a movement up and unchanged for a movement
\* down, and with the interval of the burst in the ledger for either
\* direction; no step makes the persisted total_up_time smaller.
C21_CompletedMovementBookkeeping ==
  /\ [][(pc # "idle" /\ pc' = "idle" /\ MovementCompleted(ret')) =>
           /\ file'.exists
           /\ file'.data.last_position = req.target_height
           /\ file'.data.total_up_time =
                load_state(file).total_up_time
                  + (IF req.direction = "up" THEN ExecutedDuration(ret') ELSE 0)
           /\ \/ \E i \in DOMAIN load_state(file').usage_periods :
                   load_state(file').usage_periods[i]
                     = <<req.start_time, now', now' - req.start_time>>
              \/ \E i \in DOMAIN on_periods_queue' :
                   on_periods_queue'[i] = <<req.start_time, now'>>]_vars
  /\ [][load_state(file').total_up_time >= load_state(file).total_up_time]_vars

\* C21 witness: a movement down ended after an earlier movement up
C21_Witness ==
  /\ MovementCompleted(ret)
  /\ ret.op = "move_to_height" /\ ret.movement = "down"
  /\ file.exists /\ file.data.total_up_time > 0
  /\ file.data.last_position = LOWEST_HEIGHT
  /\ Len(file.data.usage_periods) >= 2

\* C27: a request that found no state file works on an empty ledger, an
\* unknown (null) last position and a total up time of zero.
C27_MissingFileDefaults ==
  (pc = "moving" /\ ~file.exists) =>
    /\ state.usage_periods = <<>>
    /\ state.total_up_time = 0
    /\ state.last_position = None

\* C28: a state file that lacks some of the fields is loaded with every
\* present field as it is and every missing one defaulted, and no movement
\* request that works on it fails for a missing field.
C28_PartialRecordTolerated ==
  /\ file.exists =>
       /\ DOMAIN DefaultState \subseteq DOMAIN load_state(file)
       /\ \A k \in DOMAIN file.data : load_state(file)[k] = file.data[k]
  /\ "raised" \in DOMAIN ret => ret.raised # "KeyError"

\* C26: a process started after a movement was recorded computes, at the
\* instant it starts, the usage the process that recorded it computed.
C26_LedgerSurvivesRestart ==
  ret.op = "restart" =>
    get_current_usage(on_periods_queue, ret.t) = ret.usage_before

\* C22: whenever a movement request or a test movement has returned to its
\* caller, whatever the exit (success, rejection, exception while the line
\* was driven), both actuator lines are released.
C22_LinesReleasedOnReturn ==
  pc = "idle" => gpio = Released

\* the order of a burst
BurstOrder == <<"release", "drive", "sleep", "release">>

IsPrefixOf(a, b) == Len(a) <= Len(b) /\ SubSeq(b, 1, Len(a)) = a

BothDriven == gpio.up = "driven" /\ gpio.down = "driven"

\* C23: in no reachable state are the UP line and the DOWN line driven
\* together, whatever press_up / press_down / nudge / emergency_stop calls
\* the threads make and however they interleave; a call that drives a line
\* goes through release, drive, sleep, release in this order, and a burst
\* that has returned went through all four.
C23_NeverBothDriven ==
  /\ ~BothDriven
  /\ \A t \in DriverThreads :
       (threads[t].fn \in {"press_up", "press_down", "nudge"}) =>
         /\ IsPrefixOf(threads[t].trace, BurstOrder)
         /\ threads[t].result = "returned" => threads[t].trace = BurstOrder

\* one thread sleeps with the UP line driven while the other, which was
\* called for the DOWN line, waits for the lock
C23_Witness ==
  \E t \in DriverThreads, u \in DriverThreads :
    /\ threads[t].pc = "sleep" /\ threads[t].line = "up" /\ gpio.up = "driven"
    /\ threads[u].pc = "acquire" /\ threads[u].line = "down"

\* every process has returned from its request
AllReturned == \A p \in Procs : threads[p].pc = "idle"

\* C24: when the requests of two processes have completed, the persisted
\* ledger holds the interval every one of them recorded (none of them is
\* old enough to have been pruned).
C24_NoLostUpdate ==
  AllReturned =>
    \A p \in Procs : \A i \in DOMAIN threads[p].recorded :
      \E j \in DOMAIN load_state(file).usage_periods :
        load_state(file).usage_periods[j] = threads[p].recorded[i]

\* the requests that passed the duty-cycle check and have not returned
InFlight == {p \in Procs : threads[p].pc \in {"authorized", "moving"}}

CommittedTime ==
  SumOver(InFlight, [p \in InFlight |-> threads[p].req.required_time])

\* C25: at most one movement is in flight; the seconds authorized to the
\* requests in flight fit, together, the budget the ledger leaves; and
\* once all have returned, the motor has run at most max_on_time within
\* the window.
C25_OneMovementInFlight ==
  /\ Cardinality(InFlight) <= 1
  /\ ClampedSum(load_state(file).usage_periods, now) + CommittedTime
       <= DUTY_CYCLE_MAX_ON_TIME
  /\ AllReturned => ClampedSum(motorLog, now) <= DUTY_CYCLE_MAX_ON_TIME

\* the two rejections of check_duty_cycle_limits
LimitRejections == {"BurstTooLong", "DutyCycleExceeded"}

\* C38: the step in which move_to_height rejects a request for its duration
\* or for the duty cycle leaves the state file as it was (interval list,
\* last position, total up time) and the record of driven intervals too,
\* returns success = false with the message of the check, and ends with
\* both lines released; a request longer than the burst limit is never
\* let through to the motor.
C38_RejectionChangesNothing ==
  /\ [][(ret' # ret /\ "error" \in DOMAIN ret'
           /\ ret'.error.reason \in LimitRejections)
         => (/\ file' = file
             /\ motorLog' = motorLog
             /\ pc = "idle" /\ pc' = "idle"
             /\ gpio' = [up |-> "released", down |-> "released"]
             /\ ret'.success = FALSE
             /\ "remaining_time" \in DOMAIN ret'.error)]_vars
  /\ [](pc = "moving" => req.required_time <= MAX_CONTINUOUS_RUNTIME)

\* C38 witness: a request was rejected for the duty cycle while the state
\* file held recorded intervals
C38_Witness ==
  /\ "error" \in DOMAIN ret /\ ret.error.reason = "DutyCycleExceeded"
  /\ file.exists /\ file.data.usage_periods # <<>>
  /\ pc = "idle"

\* C34: while a movement request is under way, a target above the current
\* height has the UP line driven during its bursts and never the DOWN line,
\* a target below it the DOWN line and never the UP line; the on-time asked
\* for is |delta| / up_rate respectively |delta| / down_rate, in whole
\* seconds rounded up.
C34_DirectionMatchesDelta ==
  pc \in {"moving", "driving", "chunk", "resting"} =>
    LET delta == req.target_height - req.current_height
        rate  == IF delta > 0 THEN UP_RATE ELSE DOWN_RATE
        total == IF "required_time" \in DOMAIN req THEN req.required_time
                 ELSE req.total_time
        bursting == pc \in {"moving", "driving"}
    IN  /\ delta # 0
        /\ req.direction = (IF delta > 0 THEN "up" ELSE "down")
        /\ gpio.up = (IF delta > 0 /\ bursting THEN "driven" ELSE "released")
        /\ gpio.down = (IF delta < 0 /\ bursting THEN "driven" ELSE "released")
        /\ total * rate >= Abs(delta)
        /\ (total - 1) * rate < Abs(delta)

\* C34 witness: a request downwards is in its burst, the DOWN line driven
C34_Witness ==
  /\ pc = "moving"
  /\ req.target_height < req.current_height
  /\ gpio.down = "driven"

\* C36: a movement of the flow whose bursts were all authorized and driven
\* ends with move_to_height_flow returning to its caller without an
\* exception, the new position persisted.
C36_FlowReturnsNormally ==
  FlowCompleted =>
    /\ ret.raised = "nothing"
    /\ file.exists /\ file.data.last_position = ret.target_height

\* the length of the i-th interval during which a line was driven
DrivenFor(i) == motorLog[i][2] - motorLog[i][1]

\* C37: whichever entry point drove it (the reset to the lowest position
\* and the reset-then-move scripts included), no line is driven for more
\* than max_continuous_burst at a stretch.
C37_EveryActuationWithinBurstLimit ==
  \A i \in DOMAIN motorLog : DrivenFor(i) <= MAX_CONTINUOUS_RUNTIME

\* C35: a wait_for_duty_cycle(required_duration) with required_duration <=
\* max_on_time returns in the end (nothing is recorded while it waits), and
\* whenever it returns the budget left in the window, the intervals clipped
\* to the window, is at least required_duration.
C35_WaitReturns ==
  /\ (pc = "waiting" /\ req.required_duration <= DUTY_CYCLE_MAX_ON_TIME)
       ~> (pc = "idle" /\ ret.op = "wait_for_duty_cycle")
  /\ [](ret.op = "wait_for_duty_cycle" =>
          /\ ret.remaining >= ret.required_duration
          /\ DUTY_CYCLE_MAX_ON_TIME - ClampedSum(ret.queue, ret.t)
               >= ret.required_duration)
  /\ []((pc = "waiting" /\ req.required_duration <= DUTY_CYCLE_MAX_ON_TIME)
          => now < WaitHorizon)

\* C35 witness: a wait for the whole budget returned after it had to sleep
C35_Witness ==
  /\ ret.op = "wait_for_duty_cycle"
  /\ ret.required_duration = DUTY_CYCLE_MAX_ON_TIME
  /\ ret.sleeps > 0
  /\ ret.t > ret.called_at


\* what nudge was called with is accepted: a direction that is "up" or
\* "down" once lower-cased, and a positive length
NudgeArgsValid(t) ==
  /\ threads[t].direction \in {"up", "UP", "down", "DOWN"}
  /\ threads[t].seconds > 0

\* the line the direction names, whatever its case
MatchingLine(t) ==
  IF threads[t].direction \in {"up", "UP"} THEN "up" ELSE "down"

OtherLine(line) == IF line = "up" THEN "down" ELSE "up"

\* C33: a nudge whose direction is not "up" / "down" in any case, or whose
\* seconds are <= 0, raises ValueError in the step that calls it, with no
\* pin set up or written and _initialized untouched; a nudge with valid
\* arguments works on the line its direction names, goes through release,
\* drive, sleep, release once and in this order, and the other line is not
\* driven while its burst lasts.
C33_NudgeValidatesFirst ==
  /\ [][\A t \in DriverThreads :
          (threads'[t] # threads[t] /\ threads'[t].fn = "nudge"
             /\ threads[t].pc = "idle" /\ ~NudgeArgsValid(t)')
            => /\ threads'[t].result = "ValueError"
               /\ threads'[t].pc = "idle"
               /\ threads'[t].trace = <<>>
               /\ gpio' = gpio
               /\ _initialized' = _initialized
               /\ _lock' = _lock]_vars
  /\ [](\A t \in DriverThreads :
          (threads[t].fn = "nudge" /\ NudgeArgsValid(t)) =>
            /\ threads[t].line = MatchingLine(t)
            /\ threads[t].result # "ValueError"
            /\ IsPrefixOf(threads[t].trace, BurstOrder)
            /\ threads[t].result = "returned" => threads[t].trace = BurstOrder
            /\ threads[t].pc \in {"sleep", "released"} =>
                 gpio[OtherLine(threads[t].line)] # "driven")

\* a nudge called with "DOWN" has returned after one whole burst on the
\* DOWN line
C33_Witness ==
  \E t \in DriverThreads :
    /\ threads[t].fn = "nudge" /\ threads[t].direction = "DOWN"
    /\ threads[t].line = "down" /\ threads[t].result = "returned"
    /\ threads[t].trace = BurstOrder


\* no line is driven
NoLineDriven == gpio.up # "driven" /\ gpio.down # "driven"

\* C32: in the step in which a press_up / press_down call exits, by
\* returning or by an exception out of its time.sleep (a negative length,
\* an interrupt), no line is driven and the driver lock is free.
C32_PressExitsReleased ==
  [][\A t \in DriverThreads :
       (/\ threads[t].fn \in {"press_up", "press_down"}
        /\ threads[t].pc \in PressPcs
        /\ threads'[t].pc = "idle")
         => (NoLineDriven' /\ _lock' = "free")]_vars


\* C40: cleanup leaves the driver uninitialised: whenever the pins are not
\* set up as outputs, _initialized is FALSE, so that the next press sets
\* them up first and a second cleanup does nothing; and no call of the
\* driver ends in the RuntimeError of a GPIO.output on a pin that is not
\* set up.
C40_CleanupUninitialises ==
  /\ ~is_output(gpio) => ~_initialized
  /\ \A t \in DriverThreads : threads[t].result # "RuntimeError"


\* C39: _init_gpio sets the pins up at most once and never during a burst:
\* in the step in which a thread runs the GPIO.setup calls, the pins were
\* not set up by an earlier _init_gpio since the last cleanup, and no line
\* is driven.
C39_InitOnceNotDuringBurst ==
  [][\A t \in DriverThreads :
       (threads[t].pc = "setup" /\ threads'[t].pc = "flag")
         => (~is_output(gpio) /\ NoLineDriven)]_vars


\* C31: emergency_stop comes back with both lines released, also when the
\* signal handler calls it during the sleep of a burst: a thread that waits
\* for the lock in emergency_stop while a line is driven waits for the
\* burst of another thread, never for the lock that its own interrupted
\* call holds, which nobody would give back.
C31_EmergencyStopReturns ==
  \A t \in DriverThreads :
    (threads[t].pc = "stop_acquire" /\ ~NoLineDriven) => _lock # t

=============================================================================
